---- MODULE Spec2Model ----
(***************************************************************************)
(* Model of the IoT 3D-printer client (Lab4/IoT): the job pipeline of      *)
(* IoTPrinterClient (main.py) with the PrinterController, Statistics,      *)
(* GCodeParser and MenuSystem objects it drives.                           *)
(*                                                                         *)
(* Units.  The wall clock `now` counts half seconds (the shortest sleep    *)
(* of the polling loop is 0.5 s); time.time() is the whole second          *)
(* now \div 2.  time_minutes values are held in milliseconds (one unit =   *)
(* 1/60000 min) and material in milligrams, so that the fractional values  *)
(* the program computes in floating point are integers here.               *)
(***************************************************************************)
EXTENDS Integers, Naturals, Sequences, FiniteSets, TLC

(* ---------------- bounds of the exploration ---------------- *)
BootTime == 120
Horizon == 16
MaxHistory == 2
MenuWait == 1
MaxStatsCalls == 4
LimiterHorizon == 122
PrinterHorizon == 7
MaxLines == 3
MaxReads == 3

(* ---------------- program constants ---------------- *)
PING_INTERVAL == 120
QUEUE_POLL_INTERVAL == 10
PRINT_MONITORING_INTERVAL == 2
SIMULATION_SPEED_MULTIPLIER == 3
DefaultMinutes == 30
DefaultGrams == 10
DefaultLayers == 100
DefaultFeedrate == 1500
DefaultDiameter == 175
DefaultDensity == 124
TargetNozzle == 210
TargetBed == 60
ResultSleep == 3
HeatUpSteps == 5
MAX_GCODE_LINES_TO_PARSE == 50000
chunk_size == 2048

STATUS_IDLE == "idle"
STATUS_PRINTING == "printing"

(* a duration of s seconds, in clock ticks *)
Seconds(s) == s * 2

MaxClock == Seconds(BootTime + Horizon)

(* time.time(): whole seconds of the clock *)
TimeOf(clock) == clock \div 2

Min(a, b) == IF a < b THEN a ELSE b
Max(a, b) == IF a > b THEN a ELSE b

(* ---------------- JSON values of a job ---------------- *)
(* A value is [t, v]: t is its Python type, v an integer payload.          *)
Absent == [t |-> "absent", v |-> 0]
None == [t |-> "null", v |-> 0]
Num(n) == [t |-> "num", v |-> n]
Str(n) == [t |-> "str", v |-> n]
Dict(n) == [t |-> "dict", v |-> n]

(* Python truthiness: None, 0 and the empty dict {} (Dict(0)) are falsy *)
Truthy(x) ==
    \/ x.t = "num" /\ x.v # 0
    \/ x.t = "str"
    \/ x.t = "dict" /\ x.v # 0

(* dict.get(key, default): the default only replaces a missing key *)
Get(d, key, default) == IF d[key].t = "absent" THEN default ELSE d[key]

(* Python's  a or b *)
Or(a, b) == IF Truthy(a) THEN a ELSE b

JobKeys == {"id", "Id", "gCodeFilePath", "GCodeFilePath",
            "requiredMaterial", "RequiredMaterial",
            "estimatedPrintTimeMinutes", "EstimatedPrintTimeMinutes",
            "estimatedMaterialInGrams", "EstimatedMaterialInGrams",
            "diameterMm", "DiameterMm"}

NoJob == [k \in JobKeys |-> Absent]

(* A job as the queue delivers it, in one of the two casing conventions.   *)
(* diameterMm / DiameterMm are the keys of the material dict (hundredths   *)
(* of a millimetre).                                                       *)
MkJob(casing, id, path, mat, diam, mins, grams) ==
    IF casing = "camel"
    THEN [NoJob EXCEPT !["id"] = id, !["gCodeFilePath"] = path,
              !["requiredMaterial"] = mat, !["diameterMm"] = diam,
              !["estimatedPrintTimeMinutes"] = mins,
              !["estimatedMaterialInGrams"] = grams]
    ELSE [NoJob EXCEPT !["Id"] = id, !["GCodeFilePath"] = path,
              !["RequiredMaterial"] = mat, !["DiameterMm"] = diam,
              !["EstimatedPrintTimeMinutes"] = mins,
              !["EstimatedMaterialInGrams"] = grams]

Casings == {"camel", "pascal"}

(* the jobs the queue may deliver: a well-formed job in either casing, and *)
(* jobs with one field missing, null or zero                               *)
GoodJob(c) == MkJob(c, Num(1), Str(1), Dict(1), Absent, Num(1), Num(5))
Jobs ==
    { GoodJob("camel"),
      GoodJob("pascal"),
      MkJob("pascal", Num(1), Str(1), None, Absent, Num(1), Num(5)),
      MkJob("pascal", Num(1), Str(1), Dict(1), None, Num(1), Num(5)),
      MkJob("camel", Num(2), Str(1), Dict(1), Absent, Num(0), Num(0)),
      MkJob("camel", Num(2), Absent, Dict(1), Absent, Num(1), Num(5)) }

(* ---------------- GCodeParser (gcode_parser.py) ---------------- *)
(* A source line after tokenising: g says the command is G0/G1, each axis  *)
(* token is present (has) with its number or missing.  Lengths are in mm,  *)
(* feed rates in mm/min, total_time in milliseconds.                       *)
T(n) == [has |-> TRUE, v |-> n]
NoT == [has |-> FALSE, v |-> 0]
Move(x, y, z, e, f) == [g |-> TRUE, X |-> x, Y |-> y, Z |-> z, E |-> e, F |-> f, n |-> 1]
Other == [g |-> FALSE, X |-> NoT, Y |-> NoT, Z |-> NoT, E |-> NoT, F |-> NoT, n |-> 1]
(* n consecutive lines that are no move, held as one element *)
Others(n) == [Other EXCEPT !.n = n]

(* line_count of parse_file: the lines of the file that are not comments *)
RECURSIVE LineCount(_)
LineCount(lines) ==
    IF lines = <<>> THEN 0 ELSE Head(lines).n + LineCount(Tail(lines))

ParserReset ==
    [total_extrusion |-> 0, total_time |-> 0,
     X |-> 0, Y |-> 0, Z |-> 0, E |-> 0,
     current_feedrate |-> DefaultFeedrate, layer_count |-> 0]

(* reset(): every attribute of the estimator is assigned anew *)
Reset(p) ==
    [p EXCEPT !.total_extrusion = 0, !.total_time = 0,
              !.X = 0, !.Y = 0, !.Z = 0, !.E = 0,
              !.current_feedrate = DefaultFeedrate, !.layer_count = 0]

(* math.sqrt, rounded down to a whole millimetre *)
ISqrt(n) == CHOOSE r \in 0..n : r * r <= n /\ (r + 1) * (r + 1) > n

CalculateDistance(p, q) ==
    ISqrt((q.X - p.X) * (q.X - p.X) + (q.Y - p.Y) * (q.Y - p.Y)
          + (q.Z - p.Z) * (q.Z - p.Z))

(* Python float division truncated to a whole number (towards zero) *)
TruncDiv(a, b) ==
    IF (a >= 0) = (b > 0) THEN (IF a >= 0 THEN a ELSE -a) \div (IF b > 0 THEN b ELSE -b)
    ELSE -((IF a >= 0 THEN a ELSE -a) \div (IF b > 0 THEN b ELSE -b))

(* a _parse_move that times a line without F at the default feed rate     *)
ParseMove_FeedrateReset(p, line) ==
    LET new == [X |-> IF line.X.has THEN line.X.v ELSE p.X,
                Y |-> IF line.Y.has THEN line.Y.v ELSE p.Y,
                Z |-> IF line.Z.has THEN line.Z.v ELSE p.Z,
                E |-> IF line.E.has THEN line.E.v ELSE p.E]
        new_feedrate == IF line.F.has THEN line.F.v ELSE DefaultFeedrate
        distance == CalculateDistance(p, new)
        extrusion_delta == new.E - p.E
    IN  IF distance > 0 /\ new_feedrate = 0
        THEN [p |-> p, raised |-> TRUE]
        ELSE [p |-> [p EXCEPT
                       !.total_time = IF distance > 0
                                      THEN @ + TruncDiv(distance * 60000, new_feedrate)
                                      ELSE @,
                       !.total_extrusion = IF extrusion_delta > 0
                                           THEN @ + extrusion_delta ELSE @,
                       !.X = new.X, !.Y = new.Y, !.Z = new.Z, !.E = new.E,
                       !.current_feedrate = new_feedrate],
              raised |-> FALSE]

(* _parse_move: result [p, raised]; raised is the ZeroDivisionError of a   *)
(* move of positive length at feed rate 0                                  *)
ParseMove(p, line) ==
    LET new == [X |-> IF line.X.has THEN line.X.v ELSE p.X,
                Y |-> IF line.Y.has THEN line.Y.v ELSE p.Y,
                Z |-> IF line.Z.has THEN line.Z.v ELSE p.Z,
                E |-> IF line.E.has THEN line.E.v ELSE p.E]
        new_feedrate == IF line.F.has THEN line.F.v ELSE p.current_feedrate
        distance == CalculateDistance(p, new)
        extrusion_delta == new.E - p.E
    IN  IF distance > 0 /\ new_feedrate = 0
        THEN [p |-> p, raised |-> TRUE]
        ELSE [p |-> [p EXCEPT
                       !.total_time = IF distance > 0
                                      THEN @ + TruncDiv(distance * 60000, new_feedrate)
                                      ELSE @,
                       !.total_extrusion = IF extrusion_delta > 0
                                           THEN @ + extrusion_delta ELSE @,
                       !.X = new.X, !.Y = new.Y, !.Z = new.Z, !.E = new.E,
                       !.current_feedrate = new_feedrate],
              raised |-> FALSE]

(* _parse_line *)
ParseLine(p, line) ==
    IF ~line.g THEN [p |-> p, raised |-> FALSE]
    ELSE LET r == ParseMove(p, line)
         IN  IF r.raised THEN r
             ELSE [p |-> [r.p EXCEPT !.layer_count =
                                 IF line.Z.has THEN @ + 1 ELSE @],
                   raised |-> FALSE]

(* the loop of parse_file over the lines; r, the result of one line, is    *)
(* bound as the element of a singleton so that it is computed once        *)
RECURSIVE ParseLines(_, _)
ParseLines(p, lines) ==
    IF lines = <<>> THEN [p |-> p, raised |-> FALSE]
    ELSE CHOOSE out \in {IF r.raised THEN r ELSE ParseLines(r.p, Tail(lines)) :
                          r \in {ParseLine(p, Head(lines))}} : TRUE

(* parse_file without its first statement: the lines are parsed on top of *)
(* the state the estimator p was left in                                   *)
ParseFile_NoReset(p, lines) ==
    CHOOSE out \in {[p |-> r.p, ok |-> ~r.raised,
                     time_minutes |-> r.p.total_time,
                     extrusion_mm |-> r.p.total_extrusion,
                     layers |-> r.p.layer_count] :
                    r \in {ParseLines(p, lines)}} : TRUE

(* parse_file on the estimator p: reset, then every line; result [p, ok,   *)
(* time_minutes, extrusion_mm, layers]; ok = FALSE is the None of the      *)
(* except branch                                                           *)
ParseFile(p, lines) ==
    CHOOSE out \in {[p |-> r.p, ok |-> ~r.raised,
                     time_minutes |-> r.p.total_time,
                     extrusion_mm |-> r.p.total_extrusion,
                     layers |-> r.p.layer_count] :
                    r \in {ParseLines(Reset(p), lines)}} : TRUE

(* calculate_material_weight: pi * (d/2)^2 * L / 1000 * density, in mg;    *)
(* diameter and density in hundredths                                      *)
CalculateMaterialWeight(extrusion_mm, diameter, density) ==
    (((3142 * diameter * diameter) \div 1000) * density * extrusion_mm) \div 4000000

(* the files the server may deliver *)
GcodeFiles ==
    { << Other >>,
      << Move(T(100), NoT, T(0), T(50), T(1000)), Move(T(100), T(100), NoT, T(90), NoT) >>,
      << Move(T(10), NoT, NoT, T(5), T(0)) >>,
      << Others(MAX_GCODE_LINES_TO_PARSE), Move(T(10), NoT, NoT, T(5), T(600)) >> }

NoFile == [exists |-> FALSE, lines |-> <<>>]
FileOf(lines) == [exists |-> TRUE, lines |-> lines]

(* ---------------- PrinterController (printer_controller.py) ------------ *)
PrinterInit ==
    [is_printing |-> FALSE, current_job_id |-> None, print_start_time |-> 0,
     estimated_duration |-> 0, total_layers |-> 0, current_layer |-> 0,
     estimated_material |-> 0, used_material |-> 0,
     nozzle_temp |-> 0, bed_temp |-> 0,
     target_nozzle_temp |-> 0, target_bed_temp |-> 0]

(* the five 0.2 s steps of _heat_up, in clock ticks *)
HeatUpTicks == (HeatUpSteps * 2) \div 5

(* start_print, with _heat_up; estimated_duration in milliseconds *)
StartPrint(pr, job_id, time_minutes, material, layers, clock) ==
    [pr EXCEPT !.is_printing = TRUE,
               !.current_job_id = job_id,
               !.print_start_time = TimeOf(clock),
               !.estimated_duration = TruncDiv(time_minutes, SIMULATION_SPEED_MULTIPLIER),
               !.total_layers = layers,
               !.current_layer = 0,
               !.estimated_material = material,
               !.used_material = 0,
               !.target_nozzle_temp = TargetNozzle,
               !.target_bed_temp = TargetBed,
               !.nozzle_temp = TargetNozzle,
               !.bed_temp = TargetBed]

(* elapsed time of the running print, in milliseconds *)
ElapsedMs(pr, clock) == (TimeOf(clock) - pr.print_start_time) * 1000

(* min(elapsed / estimated_duration * 100, 100), or 0 without a positive   *)
(* duration; in whole percent, rounded down                                *)
Progress(pr, clock) ==
    IF pr.estimated_duration > 0
    THEN Min((ElapsedMs(pr, clock) * 100) \div pr.estimated_duration, 100)
    ELSE 0

(* the part of the duration that has been done: progress/100 as the        *)
(* fraction DoneMs / estimated_duration                                    *)
DoneMs(pr, clock) ==
    IF pr.estimated_duration > 0
    THEN Min(ElapsedMs(pr, clock), pr.estimated_duration)
    ELSE 0

(* a get_status that stores current_layer only and leaves used_material   *)
(* as start_print set it                                                   *)
GetStatus_LayerOnly(pr, clock) ==
    IF ~pr.is_printing
    THEN [pr |-> pr,
          st |-> [is_printing |-> FALSE, progress |-> 0, elapsed_time |-> 0,
                  remaining_time |-> 0, current_layer |-> 0, total_layers |-> 0,
                  used_material |-> 0]]
    ELSE LET layer == IF pr.estimated_duration > 0
                      THEN (DoneMs(pr, clock) * pr.total_layers) \div pr.estimated_duration
                      ELSE 0
             used == IF pr.estimated_duration > 0
                     THEN (DoneMs(pr, clock) * pr.estimated_material) \div pr.estimated_duration
                     ELSE 0
             pr2 == [pr EXCEPT !.current_layer = layer]
         IN  [pr |-> pr2,
              st |-> [is_printing |-> TRUE,
                      progress |-> Progress(pr, clock),
                      elapsed_time |-> ElapsedMs(pr, clock),
                      remaining_time |-> Max(pr.estimated_duration - ElapsedMs(pr, clock), 0),
                      current_layer |-> layer,
                      total_layers |-> pr.total_layers,
                      used_material |-> used]]

(* get_status: result [pr, st]; it stores current_layer and used_material  *)
GetStatus(pr, clock) ==
    IF ~pr.is_printing
    THEN [pr |-> pr,
          st |-> [is_printing |-> FALSE, progress |-> 0, elapsed_time |-> 0,
                  remaining_time |-> 0, current_layer |-> 0, total_layers |-> 0,
                  used_material |-> 0]]
    ELSE LET layer == IF pr.estimated_duration > 0
                      THEN (DoneMs(pr, clock) * pr.total_layers) \div pr.estimated_duration
                      ELSE 0
             used == IF pr.estimated_duration > 0
                     THEN (DoneMs(pr, clock) * pr.estimated_material) \div pr.estimated_duration
                     ELSE 0
             pr2 == [pr EXCEPT !.current_layer = layer, !.used_material = used]
         IN  [pr |-> pr2,
              st |-> [is_printing |-> TRUE,
                      progress |-> Progress(pr, clock),
                      elapsed_time |-> ElapsedMs(pr, clock),
                      remaining_time |-> Max(pr.estimated_duration - ElapsedMs(pr, clock), 0),
                      current_layer |-> layer,
                      total_layers |-> pr.total_layers,
                      used_material |-> used]]

(* an is_complete that asks for more than 100 percent *)
IsComplete_Strict(pr, clock) ==
    IF ~pr.is_printing THEN [pr |-> pr, complete |-> FALSE]
    ELSE LET s == GetStatus(pr, clock)
         IN  [pr |-> s.pr, complete |-> s.st.progress > 100]

(* is_complete: result [pr, complete] *)
IsComplete(pr, clock) ==
    IF ~pr.is_printing THEN [pr |-> pr, complete |-> FALSE]
    ELSE LET s == GetStatus(pr, clock)
         IN  [pr |-> s.pr, complete |-> s.st.progress >= 100]

(* stop_print, with _cool_down: result [pr, final_material] *)
StopPrint(pr) ==
    [pr |-> [pr EXCEPT !.is_printing = FALSE,
                       !.target_nozzle_temp = 0, !.target_bed_temp = 0,
                       !.nozzle_temp = 0, !.bed_temp = 0],
     final_material |-> pr.used_material]

(* simulate_error *)
SimulateError == FALSE

(* ---------------- Statistics (statistics.py) ---------------- *)
StatsInit ==
    [total_jobs |-> 0, successful_jobs |-> 0, failed_jobs |-> 0,
     total_print_time_seconds |-> 0, total_material_grams |-> 0,
     current_job_start_time |-> None, current_job_estimated_time |-> 0,
     current_job_estimated_material |-> 0]

(* Statistics.start_job *)
StatsStartJob(st, time_minutes, material, clock) ==
    [st EXCEPT !.current_job_start_time = Num(TimeOf(clock)),
               !.current_job_estimated_time = time_minutes,
               !.current_job_estimated_material = material]

(* Statistics.finish_job; actual is None or Num(milligrams) *)
StatsFinishJob(st, success, actual, clock) ==
    [st EXCEPT !.total_jobs = @ + 1,
               !.successful_jobs = IF success THEN @ + 1 ELSE @,
               !.failed_jobs = IF success THEN @ ELSE @ + 1,
               !.total_print_time_seconds =
                   IF Truthy(st.current_job_start_time)
                   THEN @ + (TimeOf(clock) - st.current_job_start_time.v) ELSE @,
               !.total_material_grams =
                   IF Truthy(actual) THEN @ + actual.v
                   ELSE IF st.current_job_estimated_material # 0
                        THEN @ + st.current_job_estimated_material ELSE @,
               !.current_job_start_time = None,
               !.current_job_estimated_time = 0,
               !.current_job_estimated_material = 0]

(* ---------------- MenuSystem (menu_system.py) ---------------- *)
STATE_MAIN_MENU == "main_menu"
STATE_POLLING == "polling"
STATE_STATISTICS == "statistics"
STATE_LANGUAGE == "language"

Languages == <<"en", "ua">>
MainMenuItems == 3

MenuInit ==
    [current_state |-> STATE_MAIN_MENU, selected_index |-> 0,
     in_menu |-> TRUE, state_history |-> <<>>, language |-> "en"]

(* Every handler returns [m, action, draws]: the menu afterwards, the      *)
(* action string it returns and whether it redraws the display (a redraw   *)
(* starts with LcdDisplay.clear).                                          *)
HandleButtonUp(m) ==
    IF m.current_state = STATE_MAIN_MENU
    THEN [m |-> [m EXCEPT !.selected_index = (@ - 1) % MainMenuItems],
          action |-> "none", draws |-> TRUE]
    ELSE IF m.current_state = STATE_LANGUAGE
    THEN [m |-> [m EXCEPT !.selected_index = (@ - 1) % Len(Languages)],
          action |-> "none", draws |-> TRUE]
    ELSE [m |-> m, action |-> "none", draws |-> FALSE]

HandleButtonDown(m) ==
    IF m.current_state = STATE_MAIN_MENU
    THEN [m |-> [m EXCEPT !.selected_index = (@ + 1) % MainMenuItems],
          action |-> "none", draws |-> TRUE]
    ELSE IF m.current_state = STATE_LANGUAGE
    THEN [m |-> [m EXCEPT !.selected_index = (@ + 1) % Len(Languages)],
          action |-> "none", draws |-> TRUE]
    ELSE [m |-> m, action |-> "none", draws |-> FALSE]

HandleButtonBack(m) ==
    IF m.current_state = STATE_POLLING
    THEN [m |-> [m EXCEPT !.current_state = STATE_MAIN_MENU, !.in_menu = TRUE,
                          !.selected_index = 0],
          action |-> "stop_polling", draws |-> TRUE]
    ELSE IF Len(m.state_history) > 0
    THEN LET prev == m.state_history[Len(m.state_history)]
         IN  [m |-> [m EXCEPT !.current_state = prev,
                              !.state_history = SubSeq(@, 1, Len(@) - 1),
                              !.selected_index = 0],
              action |-> "none", draws |-> prev = STATE_MAIN_MENU]
    ELSE [m |-> m, action |-> "none", draws |-> FALSE]

(* a handle_button_select that keeps the index of the main menu when it    *)
(* enters the language screen                                              *)
HandleButtonSelect_KeepIndex(m) ==
    IF m.current_state = STATE_MAIN_MENU
    THEN IF m.selected_index = 0
         THEN [m |-> [m EXCEPT !.state_history = Append(@, m.current_state),
                               !.current_state = STATE_POLLING, !.in_menu = FALSE],
               action |-> "start_polling", draws |-> FALSE]
         ELSE IF m.selected_index = 1
         THEN [m |-> [m EXCEPT !.state_history = Append(@, m.current_state),
                               !.current_state = STATE_STATISTICS],
               action |-> "none", draws |-> TRUE]
         ELSE IF m.selected_index = 2
         THEN [m |-> [m EXCEPT !.state_history = Append(@, m.current_state),
                               !.current_state = STATE_LANGUAGE],
               action |-> "none", draws |-> TRUE]
         ELSE [m |-> m, action |-> "none", draws |-> FALSE]
    ELSE IF m.current_state = STATE_LANGUAGE
    THEN IF m.selected_index < Len(Languages)
         THEN LET b == HandleButtonBack(
                          [m EXCEPT !.language = Languages[m.selected_index + 1]])
              IN  [m |-> b.m, action |-> "none", draws |-> b.draws]
         ELSE [m |-> m, action |-> "none", draws |-> FALSE]
    ELSE [m |-> m, action |-> "none", draws |-> FALSE]

HandleButtonSelect(m) ==
    IF m.current_state = STATE_MAIN_MENU
    THEN IF m.selected_index = 0
         THEN [m |-> [m EXCEPT !.state_history = Append(@, m.current_state),
                               !.current_state = STATE_POLLING, !.in_menu = FALSE],
               action |-> "start_polling", draws |-> FALSE]
         ELSE IF m.selected_index = 1
         THEN [m |-> [m EXCEPT !.state_history = Append(@, m.current_state),
                               !.current_state = STATE_STATISTICS],
               action |-> "none", draws |-> TRUE]
         ELSE IF m.selected_index = 2
         THEN [m |-> [m EXCEPT !.state_history = Append(@, m.current_state),
                               !.current_state = STATE_LANGUAGE,
                               !.selected_index = 0],
               action |-> "none", draws |-> TRUE]
         ELSE [m |-> m, action |-> "none", draws |-> FALSE]
    ELSE IF m.current_state = STATE_LANGUAGE
    THEN IF m.selected_index < Len(Languages)
         THEN LET b == HandleButtonBack(
                          [m EXCEPT !.language = Languages[m.selected_index + 1]])
              IN  [m |-> b.m, action |-> "none", draws |-> b.draws]
         ELSE [m |-> m, action |-> "none", draws |-> FALSE]
    ELSE [m |-> m, action |-> "none", draws |-> FALSE]

Buttons == {"none", "up", "down", "select", "back"}

(* the buttons pressed while jobs are being run: into polling mode and     *)
(* back                                                                    *)
JobButtons == {"none", "select", "back"}

(* the dispatch of handle_buttons on the button read *)
MenuDispatch(m, button) ==
    CASE button = "up" -> HandleButtonUp(m)
      [] button = "down" -> HandleButtonDown(m)
      [] button = "select" -> HandleButtonSelect(m)
      [] button = "back" -> HandleButtonBack(m)
      [] OTHER -> [m |-> m, action |-> "none", draws |-> FALSE]

(* ---------------- ApiClient (api_client.py) ---------------- *)
(* What the transport does with a request: it times out, the connection    *)
(* fails, or a response with a status code and a body arrives.  The body   *)
(* is empty, not JSON ("malformed"), a JSON object, a JSON object with a   *)
(* list under "data", a JSON list of one job, or the empty JSON list.      *)
Bodies == {"empty", "malformed", "object", "wrapped_list", "list", "empty_list"}
Responses ==
    {[kind |-> k, status_code |-> 0, body |-> "empty"] : k \in {"timeout", "connection_error"}}
    \cup {[kind |-> "response", status_code |-> c, body |-> b] :
              c \in {200, 201, 404, 500}, b \in Bodies}

(* the transport outcomes that are failures *)
TransportFailure(r) ==
    \/ r.kind # "response"
    \/ r.status_code \notin {200, 201}
    \/ r.body = "malformed"

(* the try block of _make_request: result [raised, value]; value is        *)
(* "None", "{}" or the parsed body                                         *)
MakeRequest_Try(method, r) ==
    IF method \notin {"GET", "POST"} THEN [raised |-> FALSE, value |-> "None"]
    ELSE IF r.kind # "response" THEN [raised |-> TRUE, value |-> "None"]
    ELSE IF r.status_code \in {200, 201}
    THEN IF r.body = "empty" THEN [raised |-> FALSE, value |-> "{}"]
         ELSE IF r.body = "malformed" THEN [raised |-> FALSE, value |-> "None"]
         ELSE [raised |-> FALSE, value |-> r.body]
    ELSE [raised |-> FALSE, value |-> "None"]

(* a _make_request without its except branch *)
MakeRequest_Unguarded(method, r) == MakeRequest_Try(method, r)

(* _make_request: the except branch turns every exception into None *)
MakeRequest(method, r) ==
    LET t == MakeRequest_Try(method, r)
    IN  IF t.raised THEN [raised |-> FALSE, value |-> "None"] ELSE t

(* ping, start_job, finish_job: result [raised, ok] *)
Ping(r) ==
    LET result == MakeRequest("POST", r)
    IN  [raised |-> result.raised, ok |-> ~result.raised /\ result.value # "None"]
StartJob(r) ==
    LET result == MakeRequest("POST", r)
    IN  [raised |-> result.raised, ok |-> ~result.raised /\ result.value # "None"]
FinishJob(r) ==
    LET result == MakeRequest("POST", r)
    IN  [raised |-> result.raised, ok |-> ~result.raised /\ result.value # "None"]

(* get_queue: result [raised, jobs], jobs the length of the list returned *)
GetQueue(r) ==
    LET result == MakeRequest("GET", r)
    IN  [raised |-> result.raised,
         jobs |-> IF ~result.raised /\ result.value \in {"wrapped_list", "list"}
                  THEN 1 ELSE 0]

(* The locals of download_file.  stage is "idle", "body" (the loop over    *)
(* sock.read) or "done"; content_length is None or the declared number;    *)
(* written is the size of the destination file; reads counts the calls of  *)
(* sock.read; result and raised are how the call ended.                    *)
DownloadIdle ==
    [stage |-> "idle", content_length |-> None, total_bytes |-> 0, written |-> 0,
     reads |-> 0, result |-> FALSE, raised |-> FALSE]

(* what the connection and the header lines may be: the connection fails   *)
(* or times out, the status line carries a code or is missing (0), the     *)
(* Content-Length header is missing, malformed or a number                 *)
ContentLengths == {None, Str(0), Num(0), Num(1000), Num(2048), Num(3000)}
HeaderOutcomes ==
    {[kind |-> k, status_code |-> 0, content_length |-> None] :
        k \in {"timeout", "connection_error"}}
    \cup {[kind |-> "response", status_code |-> c, content_length |-> n] :
              c \in {0, 200, 404}, n \in ContentLengths}

(* download_file up to the loop over the body (lines 166-216): the except  *)
(* branch of line 242 returns False for every exception                    *)
DownloadHeaders(h) ==
    IF h.kind # "response" \/ h.content_length.t = "str"
    THEN [DownloadIdle EXCEPT !.stage = "done", !.result = FALSE]
    ELSE IF h.status_code # 200
    THEN [DownloadIdle EXCEPT !.stage = "done", !.result = FALSE,
                              !.content_length = h.content_length]
    ELSE [DownloadIdle EXCEPT !.stage = "body", !.content_length = h.content_length]

(* what one sock.read(chunk_size) may give: an exception, no bytes (the    *)
(* connection is closed) or a chunk of at most the bytes asked for         *)
Chunks == {[raised |-> TRUE, len |-> 0]}
          \cup {[raised |-> FALSE, len |-> n] : n \in {0, 1000, chunk_size}}

(* a pass of the loop that never looks at content_length *)
DownloadRead_IgnoresLength(d, chunk) ==
    IF chunk.raised
    THEN [d EXCEPT !.reads = @ + 1, !.stage = "done", !.result = FALSE]
    ELSE IF chunk.len = 0
    THEN [d EXCEPT !.reads = @ + 1, !.stage = "done", !.result = TRUE]
    ELSE [d EXCEPT !.reads = @ + 1, !.written = @ + chunk.len,
                   !.total_bytes = @ + chunk.len]

(* one pass of the loop over the body (lines 217-229), and what follows    *)
(* the loop                                                                *)
DownloadRead(d, chunk) ==
    IF chunk.raised
    THEN [d EXCEPT !.reads = @ + 1, !.stage = "done", !.result = FALSE]
    ELSE IF chunk.len = 0
    THEN [d EXCEPT !.reads = @ + 1, !.stage = "done", !.result = TRUE]
    ELSE LET total == d.total_bytes + chunk.len
         IN  IF Truthy(d.content_length) /\ total >= d.content_length.v
             THEN [d EXCEPT !.reads = @ + 1, !.written = @ + chunk.len,
                            !.total_bytes = total,
                            !.stage = "done", !.result = TRUE]
             ELSE [d EXCEPT !.reads = @ + 1, !.written = @ + chunk.len,
                            !.total_bytes = total]

(* ---------------- IoTPrinterClient (main.py) ---------------- *)
VARIABLES
    now,                    \* wall clock, in half seconds
    SKIP_GCODE_PARSING,     \* config.py: the deployment's setting
    status, last_ping_time, last_queue_check_time, current_job, polling_mode,
    printer, stats, parser, menu,
    cache_file,             \* GCODE_CACHE_FILE on the file system
    pc,                     \* where the control flow of run() stands
    job_arg,                \* the job argument of the running process_job
    success,                \* the local `success` of process_job
    download,               \* the locals of a running ApiClient.download_file
    trace                   \* history: the calls made for the job in hand

vars == <<now, SKIP_GCODE_PARSING, status, last_ping_time, last_queue_check_time,
          current_job, polling_mode, printer, stats, parser, menu, cache_file,
          pc, job_arg, success, download, trace>>

(* one call made on behalf of a job *)
Entry(op, ok, value, result) ==
    [op |-> op, success |-> ok, value |-> value, result |-> result]

NoTrace == [job |-> NoJob, calls |-> <<>>, stats0 |-> StatsInit,
            printing0 |-> FALSE, exit |-> "none", fetched |-> <<>>, idle0 |-> TRUE,
            lines |-> <<>>, tick |-> <<>>]

(* the objects a job stage works on *)
World ==
    [now |-> now, status |-> status, last_ping_time |-> last_ping_time,
     current_job |-> current_job, printer |-> printer, stats |-> stats,
     parser |-> parser, cache_file |-> cache_file, trace |-> trace]

Install(w) ==
    /\ now' = w.now
    /\ status' = w.status
    /\ last_ping_time' = w.last_ping_time
    /\ current_job' = w.current_job
    /\ printer' = w.printer
    /\ stats' = w.stats
    /\ parser' = w.parser
    /\ cache_file' = w.cache_file
    /\ trace' = w.trace

Log(w, e) == [w EXCEPT !.trace.calls = Append(@, e)]
Sleep(w, secs) == [w EXCEPT !.now = @ + Seconds(secs)]

(* the job's id as process_job and its except branch read it *)
JobId(job) == Or(Get(job, "id", None), Get(job, "Id", None))

(* a send_ping without the test of the interval *)
SendPingW_Always(w) == [w EXCEPT !.last_ping_time = TimeOf(w.now)]

(* send_ping, on the world *)
SendPingW(w) ==
    IF TimeOf(w.now) - w.last_ping_time >= PING_INTERVAL
    THEN [w EXCEPT !.last_ping_time = TimeOf(w.now)]
    ELSE w

(* _finish_job_with_error: result [w, raised]; lcd_raises is the OSError   *)
(* of the unguarded LcdDisplay.clear                                       *)
FinishJobWithError(w, job_id, api_ok, lcd_raises) ==
    LET w1 == Log(w, Entry("finish_job", FALSE, 0, api_ok))
        w2 == [w1 EXCEPT !.stats = StatsFinishJob(w1.stats, FALSE, None, w1.now),
                         !.status = STATUS_IDLE]
    IN  IF lcd_raises THEN [w |-> w2, raised |-> TRUE]
        ELSE [w |-> Sleep(w2, ResultSleep), raised |-> FALSE]

(* the except branch of process_job *)
ExceptBranch(w, api_ok, lcd_raises) ==
    IF w.current_job # NoJob /\ Truthy(JobId(w.current_job))
    THEN FinishJobWithError(w, JobId(w.current_job), api_ok, lcd_raises)
    ELSE [w |-> w, raised |-> FALSE]

(* a _cleanup that leaves the cache file on disk *)
Cleanup_KeepsFile(w) == Log(w, Entry("cleanup", TRUE, 0, TRUE))

(* _cleanup *)
Cleanup(w) == Log([w EXCEPT !.cache_file = NoFile], Entry("cleanup", TRUE, 0, TRUE))

(* the finally branch of process_job *)
FinallyBranch(w) ==
    Cleanup([w EXCEPT !.current_job = NoJob, !.status = STATUS_IDLE])

(* How a stage of process_job ends.  r = [w, out]: out is "next" (go on    *)
(* with the next stage), "return" or "raise".  Result [w, pc].             *)
EndStage(r, nextpc, api_ok, lcd_raises) ==
    IF r.out = "next" THEN [w |-> r.w, pc |-> nextpc]
    ELSE LET h == IF r.out = "raise" THEN ExceptBranch(r.w, api_ok, lcd_raises)
                  ELSE [w |-> r.w, raised |-> FALSE]
             f == FinallyBranch(h.w)
         IN  [w |-> [f EXCEPT !.trace.exit = IF h.raised THEN "raised" ELSE "returned"],
              pc |-> IF h.raised THEN "crashed" ELSE "poll"]

MinutesMs(m) == m * 60000
GramsMg(g) == g * 1000

(* what api.download_file may do: deliver one of the files, or fail with   *)
(* or without a partial file left on disk                                  *)
DownloadOutcomes ==
    {[ok |-> TRUE, lines |-> f, partial |-> FALSE] : f \in GcodeFiles}
    \cup {[ok |-> FALSE, lines |-> <<>>, partial |-> b] : b \in BOOLEAN}

(* process_job up to the download (lines 154-183): result [w, out] *)
BeginJob(w, job, lcd_raises, dl, api_ok, lcd_raises2) ==
    LET job_id == JobId(job)
        gcode_path == Or(Get(job, "gCodeFilePath", None), Get(job, "GCodeFilePath", None))
        material == Or(Get(job, "requiredMaterial", None), Get(job, "RequiredMaterial", Dict(0)))
        grams == Or(Get(job, "estimatedMaterialInGrams", None),
                    Get(job, "EstimatedMaterialInGrams", Num(0)))
    IN  IF material.t # "dict" \/ grams.t # "num" \/ lcd_raises
        THEN [w |-> w, out |-> "raise"]
        ELSE LET w1 == [w EXCEPT !.current_job = job]
                 called == Truthy(gcode_path)
                 w2 == IF ~called THEN w1
                       ELSE Log([w1 EXCEPT !.cache_file =
                                     IF dl.ok THEN FileOf(dl.lines)
                                     ELSE IF dl.partial THEN FileOf(<<>>) ELSE @],
                                Entry("download_file", TRUE, 0, dl.ok))
             IN  IF called /\ dl.ok THEN [w |-> w2, out |-> "next"]
                 ELSE LET f == FinishJobWithError(w2, job_id, api_ok, lcd_raises2)
                      IN  [w |-> f.w, out |-> IF f.raised THEN "raise" ELSE "return"]

(* _parse_and_estimate: result [w, raised, time_minutes, material_grams,   *)
(* layers]                                                                 *)
ParseAndEstimate(w, skip) ==
    LET job == w.current_job
        material == Or(Get(job, "requiredMaterial", None), Get(job, "RequiredMaterial", Dict(0)))
    IN  IF skip
        THEN LET time_min == Or(Get(job, "estimatedPrintTimeMinutes", None), Num(0))
                 material_g == Or(Get(job, "estimatedMaterialInGrams", None), Num(0))
             IN  [w |-> w, raised |-> FALSE,
                  time_minutes |-> IF time_min.v > 0 THEN MinutesMs(time_min.v)
                                   ELSE MinutesMs(DefaultMinutes),
                  material_grams |-> IF material_g.v > 0 THEN GramsMg(material_g.v)
                                     ELSE GramsMg(DefaultGrams),
                  layers |-> DefaultLayers]
        ELSE CHOOSE out \in {
                 LET w1 == Log([w EXCEPT !.parser = result.p],
                               Entry("parse_file", TRUE, 0, result.ok))
                 IN  IF ~result.ok
                     THEN [w |-> w1, raised |-> FALSE,
                           time_minutes |-> MinutesMs(Or(Get(job, "estimatedPrintTimeMinutes", None),
                                                         Num(DefaultMinutes)).v),
                           material_grams |-> GramsMg(Or(Get(job, "estimatedMaterialInGrams", None),
                                                         Num(DefaultGrams)).v),
                           layers |-> DefaultLayers]
                     ELSE LET diameter == Or(Get(job, "diameterMm", None),
                                             Get(job, "DiameterMm", Num(DefaultDiameter)))
                          IN  IF diameter.t # "num"
                              THEN [w |-> w1, raised |-> TRUE, time_minutes |-> 0,
                                    material_grams |-> 0, layers |-> 0]
                              ELSE [w |-> w1, raised |-> FALSE,
                                    time_minutes |-> result.time_minutes,
                                    material_grams |-> CalculateMaterialWeight(
                                        result.extrusion_mm, diameter.v, DefaultDensity),
                                    layers |-> result.layers] :
                 result \in {ParseFile(w.parser, w.cache_file.lines)}} : TRUE

(* _start_printing *)
StartPrinting(w, job_id, est) ==
    LET w1 == [w EXCEPT !.status = STATUS_PRINTING,
                        !.stats = StatsStartJob(w.stats, est.time_minutes,
                                                est.material_grams, w.now)]
        w2 == Log(w1, Entry("stats_start_job", TRUE, est.time_minutes, TRUE))
        w3 == [w2 EXCEPT !.printer = StartPrint(w2.printer, job_id, est.time_minutes,
                                                est.material_grams, est.layers, w2.now),
                         !.now = @ + HeatUpTicks]
    IN  Log(w3, Entry("start_print", TRUE, est.time_minutes, TRUE))

(* the same stage without the test of the result of start_job *)
EstimateAndStart_Unchecked(w, job_id, skip, start_ok, api_ok, lcd_raises) ==
    CHOOSE out \in {
        IF est.raised THEN [w |-> est.w, out |-> "raise"]
        ELSE LET w1 == Log(est.w, Entry("validate", TRUE, est.material_grams, TRUE))
                 w2 == Log(w1, Entry("start_job", TRUE, est.time_minutes, start_ok))
             IN  [w |-> StartPrinting(w2, job_id, est), out |-> "next"] :
        est \in {ParseAndEstimate(w, skip)}} : TRUE

(* process_job from the estimate to the start of the print (lines          *)
(* 185-202): result [w, out]                                               *)
EstimateAndStart(w, job_id, skip, start_ok, api_ok, lcd_raises) ==
    CHOOSE out \in {
        IF est.raised THEN [w |-> est.w, out |-> "raise"]
        ELSE LET w1 == Log(est.w, Entry("validate", TRUE, est.material_grams, TRUE))
                 w2 == Log(w1, Entry("start_job", TRUE, est.time_minutes, start_ok))
             IN  IF ~start_ok
                 THEN LET f == FinishJobWithError(w2, job_id, api_ok, lcd_raises)
                      IN  [w |-> f.w, out |-> IF f.raised THEN "raise" ELSE "return"]
                 ELSE [w |-> StartPrinting(w2, job_id, est), out |-> "next"] :
        est \in {ParseAndEstimate(w, skip)}} : TRUE

(* the steps of a monitoring pass, kept in the history *)
Tick(w, steps) == [w EXCEPT !.trace.tick = steps]

(* a monitoring pass that tests completion before the error hook *)
MonitorPassHook_CompleteFirst(w, lcd_raises, fault) ==
    IF ~w.printer.is_printing
    THEN [w |-> Tick(w, <<>>), out |-> "next", success |-> TRUE]
    ELSE CHOOSE out \in {
           LET w1 == [w EXCEPT !.printer = s.pr]
               t1 == << Entry("get_status", TRUE, s.st.progress, TRUE),
                        Entry("show_printing_status", ~lcd_raises, s.st.progress, TRUE) >>
           IN  IF lcd_raises THEN [w |-> Tick(w1, t1), out |-> "raise", success |-> FALSE]
               ELSE CHOOSE out2 \in {
                      LET w3 == [w2 EXCEPT !.printer = c.pr]
                          t3 == t1 \o
                                << Entry("send_ping", TRUE,
                                         IF w2.last_ping_time # w1.last_ping_time THEN 1 ELSE 0,
                                         w1.status = STATUS_PRINTING),
                                   Entry("is_complete", TRUE, 0, c.complete) >>
                          t4 == t3 \o << Entry("simulate_error", TRUE, 0, fault) >>
                      IN  IF c.complete
                          THEN [w |-> Tick(w3, t3), out |-> "next", success |-> TRUE]
                          ELSE IF fault
                          THEN [w |-> Tick(Log(w3, Entry("simulate_error", TRUE, 0, TRUE)), t4),
                                out |-> "next", success |-> FALSE]
                          ELSE [w |-> Tick(Sleep(w3, PRINT_MONITORING_INTERVAL),
                                           t4 \o << Entry("sleep", TRUE,
                                                          PRINT_MONITORING_INTERVAL, TRUE) >>),
                                out |-> "loop", success |-> FALSE] :
                      w2 \in {SendPingW(w1)},
                      c \in {IsComplete(SendPingW(w1).printer, w1.now)}} : TRUE :
           s \in {GetStatus(w.printer, w.now)}} : TRUE

(* one pass of the loop of _monitor_printing with `fault` the value the    *)
(* error hook simulate_error returns on it: result [w, out, success].      *)
(* The steps of the pass are kept in trace.tick.                           *)
MonitorPassHook(w, lcd_raises, fault) ==
    IF ~w.printer.is_printing
    THEN [w |-> Tick(w, <<>>), out |-> "next", success |-> TRUE]
    ELSE CHOOSE out \in {
           LET w1 == [w EXCEPT !.printer = s.pr]
               t1 == << Entry("get_status", TRUE, s.st.progress, TRUE),
                        Entry("show_printing_status", ~lcd_raises, s.st.progress, TRUE) >>
           IN  IF lcd_raises THEN [w |-> Tick(w1, t1), out |-> "raise", success |-> FALSE]
               ELSE CHOOSE out2 \in {
                      LET w3 == [w2 EXCEPT !.printer = c.pr]
                          t3 == t1 \o
                                << Entry("send_ping", TRUE,
                                         IF w2.last_ping_time # w1.last_ping_time THEN 1 ELSE 0,
                                         w1.status = STATUS_PRINTING),
                                   Entry("simulate_error", TRUE, 0, fault) >>
                          t4 == t3 \o << Entry("is_complete", TRUE, 0, c.complete) >>
                      IN  IF fault
                          THEN [w |-> Tick(Log(w2, Entry("simulate_error", TRUE,
                                                         IF c.complete THEN 100 ELSE 0, TRUE)),
                                           t3),
                                out |-> "next", success |-> FALSE]
                          ELSE IF c.complete
                          THEN [w |-> Tick(w3, t4), out |-> "next", success |-> TRUE]
                          ELSE [w |-> Tick(Sleep(w3, PRINT_MONITORING_INTERVAL),
                                           t4 \o << Entry("sleep", TRUE,
                                                          PRINT_MONITORING_INTERVAL, TRUE) >>),
                                out |-> "loop", success |-> FALSE] :
                      w2 \in {SendPingW(w1)},
                      c \in {IsComplete(SendPingW(w1).printer, w1.now)}} : TRUE :
           s \in {GetStatus(w.printer, w.now)}} : TRUE

(* one pass of the loop of _monitor_printing: result [w, out, success];    *)
(* out is "loop" (sleep and go round again), "next" (the loop is left      *)
(* with `success`) or "raise"                                              *)
MonitorPass(w, lcd_raises) ==
    IF ~w.printer.is_printing THEN [w |-> w, out |-> "next", success |-> TRUE]
    ELSE LET w1 == [w EXCEPT !.printer = GetStatus(w.printer, w.now).pr]
         IN  IF lcd_raises THEN [w |-> w1, out |-> "raise", success |-> FALSE]
             ELSE LET w2 == SendPingW(w1)
                      c == IsComplete(w2.printer, w2.now)
                      w3 == [w2 EXCEPT !.printer = c.pr]
                  IN  IF SimulateError
                      THEN [w |-> w2, out |-> "next", success |-> FALSE]
                      ELSE IF c.complete
                      THEN [w |-> w3, out |-> "next", success |-> TRUE]
                      ELSE [w |-> Sleep(w3, PRINT_MONITORING_INTERVAL),
                            out |-> "loop", success |-> FALSE]

(* _finish_printing: result [w, out] *)
FinishPrinting(w, job_id, ok, api_ok, lcd_raises) ==
    LET sp == StopPrint(w.printer)
        w1 == Log([w EXCEPT !.printer = sp.pr],
                  Entry("stop_print", TRUE, sp.final_material, TRUE))
        w2 == [w1 EXCEPT !.stats = StatsFinishJob(w1.stats, ok, Num(sp.final_material), w1.now)]
        w3 == Log(w2, Entry("finish_job", ok, sp.final_material, api_ok))
    IN  IF lcd_raises THEN [w |-> w3, out |-> "raise"]
        ELSE [w |-> [Sleep(w3, ResultSleep) EXCEPT !.status = STATUS_IDLE],
              out |-> "return"]

(* ---------------- the control flow of run() ---------------- *)
(* what api.get_queue may return: the empty list, a list of one of the     *)
(* jobs, or a list of two jobs                                             *)
QueueAnswers ==
    {<<>>} \cup {<<j>> : j \in Jobs}
    \cup {<<GoodJob("camel"), GoodJob("pascal")>>}

Init ==
    /\ now = Seconds(BootTime)
    /\ SKIP_GCODE_PARSING \in BOOLEAN
    /\ status = STATUS_IDLE
    /\ last_ping_time = 0
    /\ last_queue_check_time = 0
    /\ current_job = NoJob
    /\ polling_mode = FALSE
    /\ printer = PrinterInit
    /\ stats = StatsInit
    /\ parser = ParserReset
    /\ menu = MenuInit
    /\ cache_file = NoFile
    /\ pc = "menu"
    /\ job_arg = NoJob
    /\ success = FALSE
    /\ download = DownloadIdle
    /\ trace = NoTrace

(* a handle_buttons that ignores the action 'stop_polling' of back *)
HandleButtons_KeepsFlag(m, polling, button, lcd_raises) ==
    LET h == MenuDispatch(m, button)
    IN  IF h.draws /\ lcd_raises
        THEN [m |-> h.m, polling_mode |-> polling, raised |-> TRUE]
        ELSE [m |-> h.m,
              polling_mode |-> IF h.action = "start_polling" THEN TRUE
                               ELSE polling,
              raised |-> FALSE]

(* handle_buttons: result [m, polling_mode, raised]; lcd_raises is the     *)
(* OSError of LcdDisplay.clear in the redraw of the handler                *)
HandleButtons(m, polling, button, lcd_raises) ==
    LET h == MenuDispatch(m, button)
    IN  IF h.draws /\ lcd_raises
        THEN [m |-> h.m, polling_mode |-> polling, raised |-> TRUE]
        ELSE [m |-> h.m,
              polling_mode |-> IF h.action = "start_polling" THEN TRUE
                               ELSE IF h.action = "stop_polling" THEN FALSE
                               ELSE polling,
              raised |-> FALSE]

(* one pass of the menu branch of the loop of run(): handle_buttons and    *)
(* the 0.1 s sleep (d: whether the clock reaches its next half second; it  *)
(* is let run in menu mode for the first MenuWait ticks after boot)        *)
MenuIteration ==
    /\ pc = "menu"
    /\ \E button \in JobButtons, lcd_raises \in BOOLEAN, d \in {0, 1} :
         LET h == HandleButtons(menu, polling_mode, button, lcd_raises)
         IN  /\ Len(h.m.state_history) <= MaxHistory
             /\ d = 0 \/ now + d <= Min(MaxClock, Seconds(BootTime) + MenuWait)
             /\ menu' = h.m
             /\ polling_mode' = h.polling_mode
             /\ now' = IF h.raised THEN now ELSE now + d
             /\ pc' = IF h.raised THEN "crashed"
                      ELSE IF h.polling_mode THEN "poll" ELSE "menu"
    /\ UNCHANGED <<download, SKIP_GCODE_PARSING, status, last_ping_time, last_queue_check_time,
                   current_job, printer, stats, parser, cache_file, job_arg,
                   success, trace>>

(* a check_queue that returns the last job of the list *)
CheckQueue_TakesLast(st, last_check, clock, answer) ==
    IF st # STATUS_IDLE THEN [last |-> last_check, job |-> NoJob]
    ELSE IF TimeOf(clock) - last_check >= QUEUE_POLL_INTERVAL
    THEN [last |-> TimeOf(clock),
          job |-> IF Len(answer) > 0 THEN answer[Len(answer)] ELSE NoJob]
    ELSE [last |-> last_check, job |-> NoJob]

(* check_queue: result [last_queue_check_time, job] *)
CheckQueue(st, last_check, clock, answer) ==
    IF st # STATUS_IDLE THEN [last |-> last_check, job |-> NoJob]
    ELSE IF TimeOf(clock) - last_check >= QUEUE_POLL_INTERVAL
    THEN [last |-> TimeOf(clock),
          job |-> IF Len(answer) > 0 THEN answer[1] ELSE NoJob]
    ELSE [last |-> last_check, job |-> NoJob]

(* one pass of the loop of run_polling_mode that finds no job: display,    *)
(* ping, queue check, 0.5 s sleep, buttons; on "back" the loop ends and    *)
(* run() shows the main menu                                               *)
PollIdle ==
    /\ pc = "poll"
    /\ now + 1 <= MaxClock
    /\ \E button \in JobButtons,
          lcd_raises \in BOOLEAN, lcd_raises2 \in BOOLEAN, lcd_raises3 \in BOOLEAN :
         LET w == SendPingW(World)
             q == CheckQueue(status, last_queue_check_time, now, <<>>)
             h == HandleButtons(menu, TRUE, button, lcd_raises2)
         IN  /\ trace' = NoTrace
             /\ IF lcd_raises
                THEN /\ pc' = "crashed"
                     /\ polling_mode' = TRUE
                     /\ UNCHANGED <<now, last_ping_time, last_queue_check_time, menu>>
                ELSE /\ last_ping_time' = w.last_ping_time
                     /\ last_queue_check_time' = q.last
                     /\ now' = now + 1
                     /\ menu' = h.m
                     /\ polling_mode' = h.polling_mode
                     /\ pc' = IF h.raised \/ (~h.polling_mode /\ lcd_raises3)
                              THEN "crashed"
                              ELSE IF h.polling_mode THEN "poll" ELSE "menu"
    /\ UNCHANGED <<download, SKIP_GCODE_PARSING, status, current_job, printer, stats, parser,
                   cache_file, job_arg, success>>

(* one pass of the loop of run_polling_mode whose queue check returns a    *)
(* job: process_job is called with it                                      *)
PollTakeJob ==
    /\ pc = "poll"
    /\ \E answer \in QueueAnswers :
         LET w == SendPingW(World)
             q == CheckQueue(status, last_queue_check_time, now, answer)
         IN  /\ q.job # NoJob
             /\ last_ping_time' = w.last_ping_time
             /\ last_queue_check_time' = q.last
             /\ job_arg' = q.job
             /\ trace' = [job |-> q.job, calls |-> <<>>, stats0 |-> stats,
                          printing0 |-> printer.is_printing, exit |-> "active",
                          fetched |-> answer, idle0 |-> (status = STATUS_IDLE),
                          lines |-> <<>>, tick |-> <<>>]
             /\ pc' = "process"
    /\ polling_mode' = TRUE
    /\ UNCHANGED <<download, now, SKIP_GCODE_PARSING, status, current_job, printer, stats,
                   parser, menu, cache_file, success>>

(* the end of a stage of process_job, installed *)
Proceed(e) ==
    /\ e.w.now <= MaxClock
    /\ Install(e.w)
    /\ pc' = e.pc
    /\ job_arg' = IF e.pc \in {"poll", "crashed"} THEN NoJob ELSE job_arg
    /\ UNCHANGED <<download, SKIP_GCODE_PARSING, last_queue_check_time, polling_mode, menu>>

(* process_job, lines 154-183: the fields of the job, the download *)
ProcessJobBegin ==
    /\ pc = "process"
    /\ \E dl \in DownloadOutcomes, lcd1 \in BOOLEAN, api1 \in BOOLEAN, lcd2 \in BOOLEAN,
          api2 \in BOOLEAN, lcd3 \in BOOLEAN :
         \E e \in {EndStage(BeginJob(World, job_arg, lcd1, dl, api1, lcd2),
                             "estimate", api2, lcd3)} : Proceed(e)
    /\ UNCHANGED success

(* process_job, lines 185-202: estimate, validation, start_job, start of   *)
(* the print                                                               *)
ProcessJobStart ==
    /\ pc = "estimate"
    /\ \E start_ok \in BOOLEAN, api1 \in BOOLEAN, lcd1 \in BOOLEAN,
          api2 \in BOOLEAN, lcd2 \in BOOLEAN :
         \E r \in {EstimateAndStart(World, JobId(job_arg), SKIP_GCODE_PARSING,
                                     start_ok, api1, lcd1)} :
           \E e \in {EndStage(r, "monitor", api2, lcd2)} : Proceed(e)
    /\ UNCHANGED success

(* process_job, line 205: one pass of the monitoring loop *)
MonitorTick ==
    /\ pc = "monitor"
    /\ \E lcd1 \in BOOLEAN, api2 \in BOOLEAN, lcd2 \in BOOLEAN :
         \E m \in {MonitorPass(World, lcd1)} :
           \E e \in {EndStage([w |-> m.w, out |-> IF m.out = "loop" THEN "next" ELSE m.out],
                               IF m.out = "loop" THEN "monitor" ELSE "finish",
                               api2, lcd2)} :
             /\ Proceed(e)
             /\ success' = IF m.out = "next" THEN m.success ELSE success

(* process_job, line 208 and the finally branch *)
ProcessJobFinish ==
    /\ pc = "finish"
    /\ \E api1 \in BOOLEAN, lcd1 \in BOOLEAN, api2 \in BOOLEAN, lcd2 \in BOOLEAN :
         \E e \in {EndStage(FinishPrinting(World, JobId(job_arg), success, api1, lcd1),
                             "poll", api2, lcd2)} : Proceed(e)
    /\ success' = FALSE

Next ==
    \/ MenuIteration
    \/ PollIdle
    \/ PollTakeJob
    \/ ProcessJobBegin
    \/ ProcessJobStart
    \/ MonitorTick
    \/ ProcessJobFinish

Spec == Init /\ [][Next]_vars

(* ---------------- the client with an error hook that reports ----------- *)
(* process_job, line 205, for a PrinterController whose simulate_error     *)
(* may return True on any pass of the monitoring loop                      *)
MonitorTickHook ==
    /\ pc = "monitor"
    /\ \E lcd1 \in BOOLEAN, fault \in BOOLEAN, api2 \in BOOLEAN, lcd2 \in BOOLEAN :
         \E m \in {MonitorPassHook(World, lcd1, fault)} :
           \E e \in {EndStage([w |-> m.w, out |-> IF m.out = "loop" THEN "next" ELSE m.out],
                               IF m.out = "loop" THEN "monitor" ELSE "finish",
                               api2, lcd2)} :
             /\ Proceed(e)
             /\ success' = IF m.out = "next" THEN m.success ELSE success

NextHook ==
    \/ MenuIteration
    \/ PollIdle
    \/ PollTakeJob
    \/ ProcessJobBegin
    \/ ProcessJobStart
    \/ MonitorTickHook
    \/ ProcessJobFinish

SpecHook == Init /\ [][NextHook]_vars

(* ---------------- Statistics driven call by call ---------------- *)
(* the estimates start_job may record and the actual amounts finish_job    *)
(* may be given (milligrams; None is the default of the parameter)         *)
StatsEstimates == {0, GramsMg(5)}
StatsActuals == {None, Num(0), Num(GramsMg(3))}

(* every variable but stats and trace *)
StatsFrame ==
    UNCHANGED <<download, now, SKIP_GCODE_PARSING, status, last_ping_time, last_queue_check_time,
                current_job, polling_mode, printer, parser, menu, cache_file,
                pc, job_arg, success>>

(* a call of Statistics.start_job *)
CallStatsStartJob ==
    /\ Len(trace.calls) < MaxStatsCalls
    /\ \E est \in StatsEstimates :
         /\ stats' = StatsStartJob(stats, MinutesMs(1), est, now)
         /\ trace' = Log(World, Entry("Statistics.start_job", TRUE, est, TRUE)).trace
    /\ StatsFrame

(* a call of Statistics.finish_job; the entry keeps the amount given and   *)
(* whether one was given                                                   *)
CallStatsFinishJob ==
    /\ Len(trace.calls) < MaxStatsCalls
    /\ \E ok \in BOOLEAN, actual \in StatsActuals :
         /\ stats' = StatsFinishJob(stats, ok, actual, now)
         /\ trace' = Log(World, Entry("Statistics.finish_job", ok, actual.v,
                                      actual # None)).trace
    /\ StatsFrame

NextStatistics ==
    \/ CallStatsStartJob
    \/ CallStatsFinishJob

SpecStatistics == Init /\ [][NextStatistics]_vars

(* ---------------- the two limiters driven over a long time ------------- *)
(* the waits between two passes of the polling loop (a pass that finds no  *)
(* job sleeps 0.5 s; a job or a slow request makes the wait longer)        *)
LimiterSteps == {Seconds(1), Seconds(9), Seconds(110)}

LimiterFrame ==
    UNCHANGED <<download, SKIP_GCODE_PARSING, status, current_job, polling_mode, printer, stats,
                parser, menu, cache_file, pc, job_arg, success>>

(* time passes between two passes *)
LimiterAdvance ==
    /\ \E d \in LimiterSteps :
         /\ now + d <= Seconds(BootTime + LimiterHorizon)
         /\ now' = now + d
    /\ trace' = NoTrace
    /\ UNCHANGED <<last_ping_time, last_queue_check_time>>
    /\ LimiterFrame

(* a pass in which the queue poll is made only when no heartbeat was sent *)
LimiterIteration_Coupled ==
    /\ \E w \in {SendPingW(World)} :
         \E q \in {IF w.last_ping_time # last_ping_time
                    THEN [last |-> last_queue_check_time, job |-> NoJob]
                    ELSE CheckQueue(w.status, last_queue_check_time, w.now, <<>>)} :
           /\ last_ping_time' = w.last_ping_time
           /\ last_queue_check_time' = q.last
           /\ trace' = [NoTrace EXCEPT !.calls =
                  << Entry("ping", TRUE, last_ping_time,
                           w.last_ping_time # last_ping_time),
                     Entry("get_queue", TRUE, last_queue_check_time,
                           q.last # last_queue_check_time) >>]
    /\ UNCHANGED now
    /\ LimiterFrame

(* one pass of the loop of run_polling_mode, lines 458-466: send_ping,     *)
(* then check_queue (the queue is empty).  The two entries keep the time   *)
(* of the previous heartbeat / fetch and whether this pass sent one.       *)
LimiterIteration ==
    /\ \E w \in {SendPingW(World)} :
         \E q \in {CheckQueue(w.status, last_queue_check_time, w.now, <<>>)} :
           /\ last_ping_time' = w.last_ping_time
           /\ last_queue_check_time' = q.last
           /\ trace' = [NoTrace EXCEPT !.calls =
                  << Entry("ping", TRUE, last_ping_time,
                           w.last_ping_time # last_ping_time),
                     Entry("get_queue", TRUE, last_queue_check_time,
                           q.last # last_queue_check_time) >>]
    /\ UNCHANGED now
    /\ LimiterFrame

NextLimiter ==
    \/ LimiterAdvance
    \/ LimiterIteration

SpecLimiter == Init /\ [][NextLimiter]_vars

(* ---------------- PrinterController driven call by call --------------- *)
(* the estimates start_print may be given: minutes (in ms; 0 is what a     *)
(* file without moves gives), grams (in mg; negative is what the fallback  *)
(* to a negative server estimate gives) and layers                         *)
PrinterMinutes == {0, 6000, 15000}
PrinterGrams == {0, GramsMg(5), -GramsMg(2)}
PrinterLayers == {0, 1, 3}

PrinterFrame ==
    UNCHANGED <<download, SKIP_GCODE_PARSING, status, last_ping_time, last_queue_check_time,
                current_job, polling_mode, stats, parser, menu, cache_file,
                pc, job_arg, success>>

(* a call of start_print on the idle printer, with the second of _heat_up *)
CallStartPrint ==
    /\ ~printer.is_printing
    /\ now + HeatUpTicks <= Seconds(BootTime + PrinterHorizon)
    /\ \E mins \in PrinterMinutes, grams \in PrinterGrams, layers \in PrinterLayers :
         printer' = StartPrint(printer, Num(1), mins, grams, layers, now)
    /\ now' = now + HeatUpTicks
    /\ trace' = NoTrace
    /\ PrinterFrame

(* a second passes *)
PrinterAdvance ==
    /\ now + Seconds(1) <= Seconds(BootTime + PrinterHorizon)
    /\ now' = now + Seconds(1)
    /\ trace' = NoTrace
    /\ UNCHANGED printer
    /\ PrinterFrame

(* a call of get_status; the entry keeps is_printing and progress *)
CallGetStatus ==
    /\ \E s \in {GetStatus(printer, now)} :
         /\ printer' = s.pr
         /\ trace' = [NoTrace EXCEPT !.calls =
                << Entry("get_status", s.st.is_printing, s.st.progress, TRUE) >>]
    /\ UNCHANGED now
    /\ PrinterFrame

(* a call of is_complete; the entry keeps the result *)
CallIsComplete ==
    /\ \E c \in {IsComplete(printer, now)} :
         /\ printer' = c.pr
         /\ trace' = [NoTrace EXCEPT !.calls =
                << Entry("is_complete", TRUE, 0, c.complete) >>]
    /\ UNCHANGED now
    /\ PrinterFrame

(* a call of stop_print; the entry keeps the material returned *)
CallStopPrint ==
    /\ printer.is_printing
    /\ \E sp \in {StopPrint(printer)} :
         /\ printer' = sp.pr
         /\ trace' = [NoTrace EXCEPT !.calls =
                << Entry("stop_print", TRUE, sp.final_material, TRUE) >>]
    /\ UNCHANGED now
    /\ PrinterFrame

NextPrinter ==
    \/ CallStartPrint
    \/ PrinterAdvance
    \/ CallGetStatus
    \/ CallIsComplete
    \/ CallStopPrint

SpecPrinter == Init /\ [][NextPrinter]_vars

(* ---------------- GCodeParser driven line by line ---------------------- *)
(* the significant lines a file may hold:                                  *)
(*   G1 X10 Y0 Z0 E5 F1200, G1 X10 Y10 Z0 E5, a retraction G1 E2,          *)
(*   G1 X20 E8 F0, G1 X0 F-600, G1 Z5 F0, and a line that is no move       *)
LineA == Move(T(10), T(0), T(0), T(5), T(1200))
LineB == Move(T(10), T(10), T(0), T(5), NoT)
ParserLines ==
    { LineA, LineB,
      Move(NoT, NoT, NoT, T(2), NoT),
      Move(T(20), NoT, NoT, T(8), T(0)),
      Move(T(0), NoT, NoT, NoT, T(-600)),
      Move(NoT, NoT, T(5), NoT, T(0)),
      Other }

(* the files of the estimates: one or two of the lines *)
ParserFiles == {<<a>> : a \in ParserLines} \cup {<<LineA, b>> : b \in ParserLines}

(* the jobs of the estimates: a well-formed job, and one whose server      *)
(* estimate is negative                                                    *)
EstimateJobs ==
    { GoodJob("camel"),
      MkJob("camel", Num(1), Str(1), Dict(1), Absent, Num(-5), Num(-2)) }

ParserFrame ==
    UNCHANGED <<download, now, SKIP_GCODE_PARSING, status, last_ping_time, last_queue_check_time,
                current_job, polling_mode, printer, stats, menu, cache_file,
                pc, job_arg, success>>

(* reset() *)
CallReset ==
    /\ parser' = Reset(parser)
    /\ trace' = NoTrace
    /\ ParserFrame

(* _parse_line on the next line of a file, as the loop of parse_file makes *)
(* it: no line follows one that raised.  The entry keeps total_extrusion   *)
(* as it was before the line.                                              *)
CallParseLine ==
    /\ Len(trace.lines) < MaxLines
    /\ \A i \in 1..Len(trace.calls) :
           trace.calls[i].op = "_parse_line" /\ trace.calls[i].success
    /\ \E line \in ParserLines :
         \E r \in {ParseLine(parser, line)} :
           /\ parser' = r.p
           /\ trace' = [trace EXCEPT
                  !.lines = Append(@, line),
                  !.calls = Append(@, Entry("_parse_line", ~r.raised,
                                            parser.total_extrusion, TRUE))]
    /\ ParserFrame

(* _parse_and_estimate for a job and a downloaded file; the entries keep   *)
(* the total time of the estimator before the call and whether it was in   *)
(* its reset state, then the estimate returned                             *)
CallParseAndEstimate ==
    /\ \E job \in EstimateJobs, file \in ParserFiles, skip \in BOOLEAN :
         \E est \in {ParseAndEstimate([World EXCEPT !.current_job = job,
                                                    !.cache_file = FileOf(file),
                                                    !.trace = NoTrace], skip)} :
           /\ parser' = est.w.parser
           /\ trace' = [NoTrace EXCEPT
                  !.job = job,
                  !.lines = file,
                  !.calls = << Entry("parser_before", TRUE, parser.total_time,
                                     parser = ParserReset) >>
                      \o est.w.trace.calls \o
                      << Entry("time_minutes", ~est.raised, est.time_minutes, skip),
                         Entry("material_grams", ~est.raised, est.material_grams, skip),
                         Entry("layers", ~est.raised, est.layers, skip) >>]
    /\ ParserFrame

NextParser ==
    \/ CallReset
    \/ CallParseLine
    \/ CallParseAndEstimate

SpecParser == Init /\ [][NextParser]_vars

(* ---------------- ApiClient driven call by call ---------------------- *)
ApiFrame ==
    UNCHANGED <<now, SKIP_GCODE_PARSING, status, last_ping_time, last_queue_check_time,
                current_job, polling_mode, printer, stats, parser, menu,
                pc, job_arg, success>>

(* the entry of a call: whether it returned, 1 for a transport failure,    *)
(* and whether the value returned reports success                          *)
ApiEntry(op, r, raised, ok) ==
    Entry(op, ~raised, IF TransportFailure(r) THEN 1 ELSE 0, ok)

CallPing ==
    /\ download.stage # "body"
    /\ \E r \in Responses : \E p \in {Ping(r)} :
         trace' = [NoTrace EXCEPT !.calls = << ApiEntry("ping", r, p.raised, p.ok) >>]
    /\ UNCHANGED <<download, cache_file>>
    /\ ApiFrame

CallGetQueue ==
    /\ download.stage # "body"
    /\ \E r \in Responses : \E q \in {GetQueue(r)} :
         trace' = [NoTrace EXCEPT !.calls =
                      << ApiEntry("get_queue", r, q.raised, q.jobs > 0) >>]
    /\ UNCHANGED <<download, cache_file>>
    /\ ApiFrame

CallStartJob ==
    /\ download.stage # "body"
    /\ \E r \in Responses : \E p \in {StartJob(r)} :
         trace' = [NoTrace EXCEPT !.calls = << ApiEntry("start_job", r, p.raised, p.ok) >>]
    /\ UNCHANGED <<download, cache_file>>
    /\ ApiFrame

CallFinishJob ==
    /\ download.stage # "body"
    /\ \E r \in Responses : \E p \in {FinishJob(r)} :
         trace' = [NoTrace EXCEPT !.calls = << ApiEntry("finish_job", r, p.raised, p.ok) >>]
    /\ UNCHANGED <<download, cache_file>>
    /\ ApiFrame

(* the entry that ends a download: 1 when the transport failed *)
DownloadEnd(d, failed) ==
    IF d.stage = "done"
    THEN << Entry("download_file", ~d.raised, IF failed THEN 1 ELSE 0, d.result) >>
    ELSE << >>

(* download_file is called: connection, request, header lines, and the     *)
(* destination file opened for writing when the status is 200              *)
DownloadBegin ==
    /\ download.stage # "body"
    /\ \E h \in HeaderOutcomes : \E d \in {DownloadHeaders(h)} :
         /\ download' = d
         /\ cache_file' = IF d.stage = "body" THEN FileOf(<<>>) ELSE cache_file
         /\ trace' = [NoTrace EXCEPT !.calls = DownloadEnd(d, TRUE)]
    /\ ApiFrame

(* one pass of the loop over the body; the connection keeps streaming for  *)
(* MaxReads reads                                                          *)
DownloadStep ==
    /\ download.stage = "body"
    /\ \E chunk \in Chunks : \E d \in {DownloadRead(download, chunk)} :
         /\ chunk.len > 0 => download.reads < MaxReads
         /\ download' = d
         /\ trace' = [trace EXCEPT !.calls =
                @ \o << Entry("sock.read", ~chunk.raised, chunk_size, chunk.len > 0) >>
                  \o (IF d.written # download.written
                      THEN << Entry("f.write", TRUE, d.written - download.written, TRUE) >>
                      ELSE << >>)
                  \o DownloadEnd(d, chunk.raised)]
    /\ UNCHANGED cache_file
    /\ ApiFrame

(* ---------------- MenuSystem driven button by button ------------------ *)
MenuFrame ==
    UNCHANGED <<download, now, SKIP_GCODE_PARSING, status, last_ping_time,
                last_queue_check_time, current_job, printer, stats,
                parser, cache_file, pc, job_arg, success>>

(* the entries of the last two button events: the index before the event   *)
(* and whether the screen was the one shown now; the flag of the client    *)
(* follows the action the handler returned, as in handle_buttons           *)
ButtonEvent(op, h) ==
    /\ trace' = [NoTrace EXCEPT !.calls =
                    (IF trace.calls = <<>> THEN <<>>
                     ELSE << trace.calls[Len(trace.calls)] >>)
                    \o << Entry(op, TRUE, menu.selected_index,
                                h.m.current_state = menu.current_state) >>]
    /\ polling_mode' = IF h.action = "start_polling" THEN TRUE
                       ELSE IF h.action = "stop_polling" THEN FALSE
                       ELSE polling_mode

CallHandleButtonUp ==
    /\ \E h \in {HandleButtonUp(menu)} : menu' = h.m /\ ButtonEvent("up", h)
    /\ MenuFrame

CallHandleButtonDown ==
    /\ \E h \in {HandleButtonDown(menu)} : menu' = h.m /\ ButtonEvent("down", h)
    /\ MenuFrame

(* the stack is followed up to MaxHistory + 1 entries *)
CallHandleButtonSelect ==
    /\ Len(menu.state_history) <= MaxHistory
    /\ \E h \in {HandleButtonSelect(menu)} : menu' = h.m /\ ButtonEvent("select", h)
    /\ MenuFrame

CallHandleButtonBack ==
    /\ \E h \in {HandleButtonBack(menu)} : menu' = h.m /\ ButtonEvent("back", h)
    /\ MenuFrame

NextMenu ==
    \/ CallHandleButtonUp
    \/ CallHandleButtonDown
    \/ CallHandleButtonSelect
    \/ CallHandleButtonBack

SpecMenu == Init /\ [][NextMenu]_vars

NextApi ==
    \/ CallPing
    \/ CallGetQueue
    \/ CallStartJob
    \/ CallFinishJob
    \/ DownloadBegin
    \/ DownloadStep

SpecApi == Init /\ [][NextApi]_vars

(* ---------------- properties ---------------- *)
(* the calls of one kind made for the job in hand *)
CallsOf(op) == {i \in DOMAIN trace.calls : trace.calls[i].op = op}

(* process_job has just ended, by return or by an exception it let out *)
JobEnded == trace.exit \in {"returned", "raised"}

(* the estimated print time the server declared for a job, in either       *)
(* casing                                                                  *)
ServerMinutes(job) ==
    Or(Get(job, "estimatedPrintTimeMinutes", None),
       Get(job, "EstimatedPrintTimeMinutes", None))

(* C1: after a download that succeeded and a parse_file that returned no   *)
(* result, the job is not failed: start_job is called, with the server's   *)
(* estimated minutes whenever that value is > 0, and never with 0.         *)
C1_ParseFailureUsesServerMinutes ==
    (\E i \in CallsOf("parse_file") : ~trace.calls[i].result)
    => /\ CallsOf("start_job") # {}
       /\ \A i \in CallsOf("start_job") :
            /\ trace.calls[i].value # 0
            /\ (ServerMinutes(trace.job).t = "num" /\ ServerMinutes(trace.job).v > 0)
               => trace.calls[i].value = MinutesMs(ServerMinutes(trace.job).v)

(* C2: the estimated minutes passed to start_job and to start_print are    *)
(* > 0 on every path, and so is the estimated_duration of a started print. *)
C2_StartedEstimatePositive ==
    /\ \A i \in CallsOf("start_job") \cup CallsOf("start_print") :
         trace.calls[i].value > 0
    /\ printer.is_printing => printer.estimated_duration > 0

(* C3: a print that has been started leaves the monitoring loop as time    *)
(* advances: there is an elapsed time, within the longest duration an      *)
(* estimate can give, at which is_complete holds (the error hook never     *)
(* reports, so completion is the only way out of the loop).                *)
LongestPrintSeconds == (DefaultMinutes * 60) \div SIMULATION_SPEED_MULTIPLIER
C3_MonitoringEnds ==
    pc = "monitor"
    => \E secs \in 0..LongestPrintSeconds :
         /\ printer.is_printing
         /\ Progress(printer, Seconds(printer.print_start_time + secs)) >= 100

(* C4: when download_file failed, once process_job has returned            *)
(* finish_job was called with success = false, failed_jobs has grown by    *)
(* exactly 1, start_job and start_print were not called and the cache      *)
(* file is gone.                                                           *)
C4_DownloadFailure ==
    (trace.exit = "returned" /\ \E i \in CallsOf("download_file") : ~trace.calls[i].result)
    => /\ \E i \in CallsOf("finish_job") : ~trace.calls[i].success
       /\ stats.failed_jobs = trace.stats0.failed_jobs + 1
       /\ CallsOf("start_job") = {} /\ CallsOf("start_print") = {}
       /\ ~cache_file.exists

(* C5: whenever process_job has ended, by return or by exception, the      *)
(* status is idle, current_job is None and the cache file is removed.      *)
C5_CleanupAlways ==
    JobEnded => /\ status = STATUS_IDLE
                /\ current_job = NoJob
                /\ ~cache_file.exists

(* C5 witness: process_job ended by an exception after a download that     *)
(* had put the file on disk.                                               *)
C5_Witness ==
    /\ trace.exit = "raised"
    /\ \E i \in CallsOf("download_file") : trace.calls[i].result
    /\ ~cache_file.exists

(* C6: when a job is handed to process_job, and when start_print is        *)
(* called, no earlier job is still executing in the printer.               *)
C6_OneActiveJob ==
    /\ pc = "process" => ~printer.is_printing
    /\ CallsOf("start_print") # {} => ~trace.printing0

(* C7: a job that ends without a successful finish report has had          *)
(* finish_job called with success = false before the client is idle again. *)
C7_FailureReported ==
    (JobEnded /\ ~\E i \in CallsOf("finish_job") : trace.calls[i].success)
    => \E i \in CallsOf("finish_job") : ~trace.calls[i].success

(* C8: no failure inside process_job ends the control loop: process_job    *)
(* lets no exception out to run_polling_mode and run.                      *)
C8_LoopSurvives == ~(pc = "crashed" /\ trace.exit = "raised")

(* C9: once _finish_printing has run (stop_print was called), at the end   *)
(* of process_job the job is counted, the file is removed and the status   *)
(* is idle, and a finish notification that failed is the only one sent.    *)
C9_FinishBestEffort ==
    (JobEnded /\ CallsOf("stop_print") # {})
    => /\ stats.total_jobs > trace.stats0.total_jobs
       /\ ~cache_file.exists
       /\ status = STATUS_IDLE
       /\ (\E i \in CallsOf("finish_job") : ~trace.calls[i].result)
          => Cardinality(CallsOf("finish_job")) = 1

(* C10: when start_job failed, at the end of process_job start_print and   *)
(* Statistics.start_job were not called, finish_job was called with        *)
(* success = false, the status is idle and a printer that was idle when    *)
(* the job was taken is still idle.                                        *)
C10_StartRejected ==
    (JobEnded /\ \E i \in CallsOf("start_job") : ~trace.calls[i].result)
    => /\ CallsOf("start_print") = {}
       /\ CallsOf("stats_start_job") = {}
       /\ \E i \in CallsOf("finish_job") : ~trace.calls[i].success
       /\ status = STATUS_IDLE
       /\ ~trace.printing0 => ~printer.is_printing

(* C10 witness: process_job has ended after a start_job that failed.       *)
C10_Witness ==
    /\ JobEnded
    /\ \E i \in CallsOf("start_job") : ~trace.calls[i].result
    /\ \E i \in CallsOf("finish_job") : ~trace.calls[i].success

(* C11: when the error hook reported a fault on a monitoring pass, the     *)
(* pass is the last one (stop_print is the next call made), finish_job is  *)
(* called with success = false, failed_jobs has grown by 1 and             *)
(* successful_jobs is unchanged at the end of process_job, also when the   *)
(* print was complete on that pass.                                        *)
C11_FaultAbortsJob ==
    (JobEnded /\ CallsOf("simulate_error") # {})
    => /\ \A i \in CallsOf("simulate_error") :
            i < Len(trace.calls) /\ trace.calls[i + 1].op = "stop_print"
       /\ \E i \in CallsOf("finish_job") : ~trace.calls[i].success
       /\ \A i \in CallsOf("finish_job") : ~trace.calls[i].success
       /\ stats.failed_jobs = trace.stats0.failed_jobs + 1
       /\ stats.successful_jobs = trace.stats0.successful_jobs

(* the grams a sequence of Statistics calls should add: for each           *)
(* finish_job the amount given, or without one the estimate of the         *)
(* start_job before it                                                     *)
RECURSIVE ChosenGrams(_, _)
ChosenGrams(calls, est) ==
    IF calls = <<>> THEN 0
    ELSE IF Head(calls).op = "Statistics.start_job"
    THEN ChosenGrams(Tail(calls), Head(calls).value)
    ELSE (IF Head(calls).result THEN Head(calls).value ELSE est)
         + ChosenGrams(Tail(calls), 0)

(* C12: after any sequence of start_job / finish_job calls                 *)
(* total_material_grams is the sum, over the finish_job calls, of the      *)
(* actual amount when one was given (0 included) and of the recorded       *)
(* estimate only when none was given.                                      *)
C12_ActualGramsCounted ==
    stats.total_material_grams = ChosenGrams(trace.calls, 0)

(* C13: for a print that was started while parsing is disabled            *)
(* (SKIP_GCODE_PARSING) or from a file of more lines than                  *)
(* MAX_GCODE_LINES_TO_PARSE, parse_file was not run and start_job got the  *)
(* minutes the server declared (when that value is > 0).                   *)
C13_LargeFileNotParsed ==
    (/\ pc = "monitor"
     /\ cache_file.exists
     /\ SKIP_GCODE_PARSING \/ LineCount(cache_file.lines) > MAX_GCODE_LINES_TO_PARSE)
    => /\ CallsOf("parse_file") = {}
       /\ (ServerMinutes(trace.job).t = "num" /\ ServerMinutes(trace.job).v > 0)
          => \A i \in CallsOf("start_job") :
               trace.calls[i].value = MinutesMs(ServerMinutes(trace.job).v)

(* the same job delivered with camelCase names *)
Pick(job, camel, pascal) == IF job[camel] # Absent THEN job[camel] ELSE job[pascal]
CamelCase(job) ==
    MkJob("camel", Pick(job, "id", "Id"), Pick(job, "gCodeFilePath", "GCodeFilePath"),
          Pick(job, "requiredMaterial", "RequiredMaterial"),
          Pick(job, "diameterMm", "DiameterMm"),
          Pick(job, "estimatedPrintTimeMinutes", "EstimatedPrintTimeMinutes"),
          Pick(job, "estimatedMaterialInGrams", "EstimatedMaterialInGrams"))

(* C14: a print that was started for a job got the values the same job     *)
(* with camelCase names gets from the same file: the minutes of start_job  *)
(* and start_print, the material recorded by Statistics and the layers.    *)
C14_CasingEquivalence ==
    (pc = "monitor" /\ cache_file.exists)
    => LET est == ParseAndEstimate([World EXCEPT !.current_job = CamelCase(current_job)],
                                   SKIP_GCODE_PARSING)
       IN  /\ ~est.raised
           /\ \A i \in CallsOf("start_job") \cup CallsOf("start_print") :
                trace.calls[i].value = est.time_minutes
           /\ stats.current_job_estimated_material = est.material_grams
           /\ printer.total_layers = est.layers

(* C15: the job process_job is working on is the first job of a non-empty  *)
(* list that get_queue returned while the status was idle; the other jobs  *)
(* of that list are not processed from it.                                 *)
C15_FirstJobOnly ==
    pc \in {"process", "estimate", "monitor", "finish"}
    => /\ Len(trace.fetched) > 0
       /\ job_arg = trace.fetched[1]
       /\ trace.job = trace.fetched[1]
       /\ trace.idle0

(* C15 witness: a job is being processed that came from a list of two. *)
C15_Witness ==
    /\ pc = "process"
    /\ Len(trace.fetched) = 2
    /\ job_arg = trace.fetched[1]
    /\ job_arg # trace.fetched[2]

(* the entries of the pass just made *)
PingEntry == trace.calls[1]
QueueEntry == trace.calls[2]
PassMade == Len(trace.calls) = 2 /\ PingEntry.op = "ping" /\ QueueEntry.op = "get_queue"

(* C16: a heartbeat is sent exactly when PING_INTERVAL seconds have passed *)
(* since the previous one, and a queue fetch exactly when                  *)
(* QUEUE_POLL_INTERVAL seconds have passed since the previous fetch: two   *)
(* consecutive ones are never closer, and a call made after the interval   *)
(* sends.                                                                  *)
C16_RateLimited ==
    PassMade
    => /\ PingEntry.result
          => /\ last_ping_time = TimeOf(now)
             /\ last_ping_time - PingEntry.value >= PING_INTERVAL
       /\ TimeOf(now) - PingEntry.value >= PING_INTERVAL => PingEntry.result
       /\ QueueEntry.result
          => /\ last_queue_check_time = TimeOf(now)
             /\ last_queue_check_time - QueueEntry.value >= QUEUE_POLL_INTERVAL
       /\ TimeOf(now) - QueueEntry.value >= QUEUE_POLL_INTERVAL => QueueEntry.result

(* C16 witness: a second heartbeat was sent, PING_INTERVAL or more after   *)
(* the first one.                                                          *)
C16_Witness ==
    /\ PassMade
    /\ PingEntry.result
    /\ PingEntry.value >= BootTime
    /\ last_ping_time - PingEntry.value >= PING_INTERVAL

(* C17: in a pass the heartbeat depends on last_ping_time alone and the    *)
(* queue poll on last_queue_check_time alone: each is sent when it is due  *)
(* whatever the other did, and a limiter that did not send keeps its time. *)
C17_LimitersIndependent ==
    PassMade
    => /\ PingEntry.result = (TimeOf(now) - PingEntry.value >= PING_INTERVAL)
       /\ QueueEntry.result = (TimeOf(now) - QueueEntry.value >= QUEUE_POLL_INTERVAL)
       /\ ~PingEntry.result => last_ping_time = PingEntry.value
       /\ ~QueueEntry.result => last_queue_check_time = QueueEntry.value

(* C17 witness: a pass sent the heartbeat and skipped the queue poll. *)
C17_Witness ==
    /\ PassMade
    /\ PingEntry.result
    /\ ~QueueEntry.result

(* C18: once process_job has finished a job, run_polling_mode has ended    *)
(* and the client is in menu mode with the main menu shown.                *)
C18_JobCompletionLeavesPolling ==
    trace.exit = "returned"
    => /\ pc = "menu"
       /\ ~polling_mode
       /\ menu.current_state = STATE_MAIN_MENU

(* the call just made on the printer *)
LastCall(op) == Len(trace.calls) = 1 /\ trace.calls[1].op = op

(* C19: get_status of a running print yields progress 0 and layer 0 at     *)
(* elapsed 0, progress exactly 100 and current_layer = total_layers at     *)
(* every elapsed time >= estimated_duration, and never more than 100.      *)
C19_ProgressBounds ==
    (LastCall("get_status") /\ trace.calls[1].success)
    => /\ trace.calls[1].value <= 100
       /\ ElapsedMs(printer, now) >= printer.estimated_duration
          => /\ trace.calls[1].value = 100
             /\ printer.current_layer = printer.total_layers
       /\ ElapsedMs(printer, now) = 0
          => /\ trace.calls[1].value = 0
             /\ printer.current_layer = 0

(* C20: is_complete returns true exactly when get_status at the same       *)
(* instant reports progress >= 100, printing or not, and a call repeated   *)
(* at once returns the same and changes nothing.                           *)
C20_IsCompleteIffProgress ==
    LastCall("is_complete")
    => /\ trace.calls[1].result = (GetStatus(printer, now).st.progress >= 100)
       /\ IsComplete(printer, now).complete = trace.calls[1].result
       /\ IsComplete(printer, now).pr = printer

(* C20 witness: is_complete has returned true for a running print. *)
C20_Witness ==
    /\ LastCall("is_complete")
    /\ trace.calls[1].result
    /\ printer.is_printing
    /\ Progress(printer, now) = 100

(* C21: get_status is pure: a call of it, in any printer state and at any *)
(* time, leaves every field of the printer unchanged.                      *)
C21_GetStatusPure == [][CallGetStatus => printer' = printer]_vars

(* the lines fed one by one since the reset *)
FedLines ==
    /\ Len(trace.calls) = Len(trace.lines)
    /\ \A i \in 1..Len(trace.calls) : trace.calls[i].op = "_parse_line"

(* the sum of the positive E deltas of a sequence of lines, prev being the *)
(* E of the line before                                                    *)
RECURSIVE SumPositiveDeltas(_, _)
SumPositiveDeltas(lines, prev) ==
    IF lines = <<>> THEN 0
    ELSE LET line == Head(lines)
             e == IF line.g /\ line.E.has THEN line.E.v ELSE prev
         IN  (IF e > prev THEN e - prev ELSE 0) + SumPositiveDeltas(Tail(lines), e)

(* C22: for every sequence of G0/G1 lines fed from the reset state,        *)
(* total_extrusion equals the sum of the positive E deltas of the          *)
(* sequence, and no line decreases it.                                     *)
C22_ExtrusionIsSumOfPositiveDeltas ==
    (FedLines /\ trace.lines # <<>>)
    => /\ parser.total_extrusion = SumPositiveDeltas(trace.lines, 0)
       /\ parser.total_extrusion >= trace.calls[Len(trace.calls)].value

(* C23: the per-line operation _parse_line never raises, whatever the     *)
(* line, a feed rate of 0 included.                                        *)
C23_ParseLineNeverRaises ==
    \A i \in 1..Len(trace.calls) :
        trace.calls[i].op = "_parse_line" => trace.calls[i].success

(* the estimate just returned by _parse_and_estimate *)
EstimateMade ==
    /\ Len(trace.calls) >= 3
    /\ trace.calls[Len(trace.calls)].op = "layers"
    /\ trace.calls[Len(trace.calls)].success
EstimateValue(op) ==
    (CHOOSE e \in {trace.calls[i] : i \in 1..Len(trace.calls)} : e.op = op).value

(* C24: every estimate produced for a job has time_minutes >= 0,           *)
(* material_grams >= 0 and layers >= 0 (extrusion_mm >= 0 in the parser),  *)
(* for every G-code input and every server estimate used as fallback.      *)
C24_EstimateNonNegative ==
    EstimateMade
    => /\ EstimateValue("time_minutes") >= 0
       /\ EstimateValue("material_grams") >= 0
       /\ EstimateValue("layers") >= 0
       /\ parser.total_extrusion >= 0

(* C25: parsing G1 X10 Y0 Z0 E5 F1200 then G1 X10 Y10 Z0 E5 from the reset *)
(* state yields total extrusion 10 and total time 1 second.                *)
C25_ScenarioA ==
    (FedLines /\ trace.lines = <<LineA, LineB>>)
    => /\ parser.total_extrusion = 10
       /\ parser.total_time = 1000

(* C25 amended: the two lines yield total extrusion 5 (the second line     *)
(* repeats E5, a delta of 0) and total time 1 second, the second move      *)
(* timed at the feed rate 1200 of the first line.                          *)
C25_ScenarioA_Amended ==
    (FedLines /\ trace.lines = <<LineA, LineB>>)
    => /\ parser.total_extrusion = 5
       /\ parser.total_time = 1000
       /\ parser.current_feedrate = 1200

(* C25 witness: the two lines have been parsed. *)
C25_Witness ==
    /\ FedLines
    /\ trace.lines = <<LineA, LineB>>
    /\ trace.calls[2].success
    /\ parser.E = 5 /\ parser.Y = 10

(* the bytes written to the destination before the i-th entry *)
RECURSIVE WrittenBefore(_, _)
WrittenBefore(calls, i) ==
    IF i <= 1 THEN 0
    ELSE WrittenBefore(calls, i - 1)
         + (IF calls[i - 1].op = "f.write" THEN calls[i - 1].value ELSE 0)

(* C26: with a declared Content-Length N > 0 no read is made once N body   *)
(* bytes have been received, every read asks for at most 2048 bytes, and   *)
(* every chunk is written to the destination before the next read.         *)
C26_ContentLengthRespected ==
    /\ \A i \in 1..Len(trace.calls) :
          trace.calls[i].op = "sock.read"
          => /\ trace.calls[i].value <= 2048
             /\ (download.content_length.t = "num" /\ download.content_length.v > 0)
                => WrittenBefore(trace.calls, i) < download.content_length.v
             /\ trace.calls[i].result
                => /\ i < Len(trace.calls)
                   /\ trace.calls[i + 1].op = "f.write"
                   /\ trace.calls[i + 1].value <= 2048
    /\ download.written = download.total_bytes
    /\ download.stage = "body" => download.written = WrittenBefore(trace.calls, Len(trace.calls) + 1)

(* C26 witness: a download with Content-Length 3000 has ended after two    *)
(* reads, with a third read still on offer.                                *)
C26_Witness ==
    /\ download.stage = "done"
    /\ download.result
    /\ download.content_length = Num(3000)
    /\ download.total_bytes >= 3000
    /\ download.reads = 2
    /\ download.reads < MaxReads

ApiOps == {"ping", "get_queue", "start_job", "finish_job", "download_file"}

(* C27: no operation of the client raises, and on a transport failure      *)
(* (timeout, connection error, status other than success, malformed        *)
(* headers or body) it returns its failure value.                          *)
C27_NoOperationRaises ==
    /\ ~download.raised
    /\ \A i \in 1..Len(trace.calls) :
          trace.calls[i].op \in ApiOps
          => /\ trace.calls[i].success
             /\ trace.calls[i].value = 1 => ~trace.calls[i].result

(* C27 witness: a call whose transport failed has returned its failure     *)
(* value.                                                                  *)
C27_Witness ==
    /\ Len(trace.calls) = 1
    /\ trace.calls[1] = Entry("get_queue", TRUE, 1, FALSE)

(* C28: for one job taken from the queue process_job calls download_file, *)
(* start_job and finish_job at most once each, on every path.              *)
C28_NoRetries ==
    /\ Cardinality(CallsOf("download_file")) <= 1
    /\ Cardinality(CallsOf("start_job")) <= 1
    /\ Cardinality(CallsOf("finish_job")) <= 1

(* the place of a call in the order of the stages of a job *)
StageRank(op) ==
    CASE op = "download_file" -> 1
      [] op = "parse_file" -> 2
      [] op = "validate" -> 3
      [] op = "start_job" -> 4
      [] op = "stats_start_job" -> 5
      [] op = "start_print" -> 5
      [] op = "stop_print" -> 7
      [] op = "finish_job" -> 8
      [] op = "cleanup" -> 9
      [] OTHER -> 0

(* the calls of a job are in the order of the stages; after a failed       *)
(* download_file or start_job only the error report and the cleanup        *)
(* follow; start_print follows a start_job that succeeded                  *)
StagesInOrder ==
    /\ \A i, j \in 1..Len(trace.calls) :
          i < j => StageRank(trace.calls[i].op) <= StageRank(trace.calls[j].op)
    /\ \A i, j \in 1..Len(trace.calls) :
          (i < j /\ trace.calls[i].op \in {"download_file", "start_job"}
                 /\ ~trace.calls[i].result)
          => /\ trace.calls[j].op \in {"finish_job", "cleanup"}
             /\ trace.calls[j].op = "finish_job" => ~trace.calls[j].success
    /\ \A j \in CallsOf("start_print") :
          \E i \in CallsOf("start_job") : i < j /\ trace.calls[i].result

(* control passes from stage to stage in the order download, estimate and  *)
(* start, monitoring, finishing                                            *)
StagesStep ==
    /\ pc' = "estimate" => pc = "process"
    /\ pc' = "monitor" => pc \in {"estimate", "monitor"}
    /\ pc' = "finish" => pc = "monitor"
    /\ (pc' = "monitor" /\ pc = "estimate") => printer'.is_printing
    /\ (pc = "finish" /\ pc' # "finish") => CallsOf("stop_print")' # {}

(* C29: the calls made for one job occur only in the order download_file,  *)
(* parse/estimate, validate, start_job, start_print, monitoring,           *)
(* stop_print, finish_job, cleanup; once a stage fails no later stage of   *)
(* the normal path runs; start_print is called only after start_job        *)
(* succeeded for the same job.                                             *)
C29_StageOrder == [](StagesInOrder) /\ [][StagesStep]_vars

(* C29 witness: a job has gone through every stage. *)
C29_Witness ==
    /\ trace.exit = "returned"
    /\ \A op \in {"download_file", "parse_file", "validate", "start_job",
                   "start_print", "stop_print", "finish_job", "cleanup"} :
          CallsOf(op) # {}
    /\ \E i \in CallsOf("finish_job") : trace.calls[i].success

(* the steps of a monitoring pass, in their order *)
TickOrder ==
    << "get_status", "show_printing_status", "send_ping", "simulate_error",
       "is_complete", "sleep" >>

(* C30: a monitoring pass reads the status, renders it, attempts the       *)
(* heartbeat with status printing, polls the error hook and checks         *)
(* completion, in this order, and sleeps PRINT_MONITORING_INTERVAL only    *)
(* when neither an error nor completion was found on the pass.             *)
C30_MonitoringTick ==
    LET t == trace.tick
    IN  t # <<>>
        => /\ Len(t) <= Len(TickOrder)
           /\ \A i \in 1..Len(t) : t[i].op = TickOrder[i]
           /\ Len(t) >= 2
           /\ t[2].value = t[1].value
           /\ Len(t) = 2 <=> ~t[2].success
           /\ Len(t) >= 3 => t[3].result
           /\ Len(t) = 4 <=> (Len(t) >= 4 /\ t[4].result)
           /\ Len(t) = 5 <=> (Len(t) >= 5 /\ t[5].result)
           /\ Len(t) = 6 => /\ t[6].value = PRINT_MONITORING_INTERVAL
                            /\ ~t[4].result /\ ~t[5].result

(* C30 witness: a pass part-way through the print that found neither an   *)
(* error nor completion, attempted the heartbeat and slept.                *)
C30_Witness ==
    /\ Len(trace.tick) = 6
    /\ trace.tick[3].result
    /\ trace.tick[1].value \in 1..99
    /\ pc = "monitor"

(* the status get_status returns for an idle printer *)
ZeroedStatus ==
    [is_printing |-> FALSE, progress |-> 0, elapsed_time |-> 0, remaining_time |-> 0,
     current_layer |-> 0, total_layers |-> 0, used_material |-> 0]

(* C31: stop_print leaves the printer idle (get_status then returns the    *)
(* zeroed status), resets both temperatures and both targets to 0, and     *)
(* returns the used material derived from the elapsed time at the moment   *)
(* of the stop, progress/100 * estimated_material.                         *)
C31_StopPrint ==
    LastCall("stop_print")
    => /\ ~printer.is_printing
       /\ GetStatus(printer, now).st = ZeroedStatus
       /\ printer.nozzle_temp = 0 /\ printer.bed_temp = 0
       /\ printer.target_nozzle_temp = 0 /\ printer.target_bed_temp = 0
       /\ trace.calls[1].value =
             GetStatus([printer EXCEPT !.is_printing = TRUE], now).st.used_material

(* the snapshot get_status has just returned for a running print agrees   *)
(* with its progress: DoneMs / estimated_duration is progress/100          *)
SnapshotDerived ==
    (LastCall("get_status") /\ trace.calls[1].success)
    => /\ trace.calls[1].value \in 0..100
       /\ printer.current_layer =
             (IF printer.estimated_duration > 0
              THEN (DoneMs(printer, now) * printer.total_layers) \div printer.estimated_duration
              ELSE 0)
       /\ printer.current_layer <= printer.total_layers
       /\ printer.used_material =
             (IF printer.estimated_duration > 0
              THEN (DoneMs(printer, now) * printer.estimated_material)
                       \div printer.estimated_duration
              ELSE 0)
       /\ printer.used_material <= printer.estimated_material

(* while the print goes on, the progress of a later snapshot is not less   *)
ProgressMonotone ==
    (printer.is_printing /\ printer'.is_printing)
    => GetStatus(printer', now').st.progress >= GetStatus(printer, now).st.progress

(* C32: while a print is executing, successive get_status snapshots have   *)
(* non-decreasing progress within [0, 100], and every snapshot has         *)
(* current_layer = floor(progress/100 * total_layers) <= total_layers and  *)
(* used_material = progress/100 * estimated_material <= estimated_material.*)
C32_SnapshotsDerived == [](SnapshotDerived) /\ [][ProgressMonotone]_vars

(* the G0/G1 lines of a sequence that hold a Z token *)
RECURSIVE LinesWithZ(_)
LinesWithZ(lines) ==
    IF lines = <<>> THEN 0
    ELSE (IF Head(lines).g /\ Head(lines).Z.has THEN 1 ELSE 0) + LinesWithZ(Tail(lines))

(* C33: the layer counter grows by exactly 1 for each G0/G1 line with a Z  *)
(* token, whatever its value, and no other line changes it.                *)
C33_LayerPerZLine ==
    FedLines => parser.layer_count = LinesWithZ(trace.lines)

(* a file has just been parsed by _parse_and_estimate *)
FileParsed ==
    /\ Len(trace.calls) >= 2
    /\ trace.calls[1].op = "parser_before"
    /\ trace.calls[2].op = "parse_file"

(* a call of reset(): the entries of the calls before it are dropped *)
ResetCalled == trace # NoTrace /\ trace' = NoTrace

(* C34: reset() restores totals 0, position 0, feed rate 1500 and layer    *)
(* count 0, and parse_file resets first: parsing a file after any other    *)
(* work of the estimator gives the result of parsing it with a fresh one.  *)
C34_NoLeakBetweenFiles ==
    /\ [](FileParsed
          => \E fresh \in {ParseFile(ParserReset, trace.lines)} :
                /\ parser = fresh.p
                /\ trace.calls[2].result = fresh.ok
                /\ (EstimateMade /\ fresh.ok)
                   => /\ EstimateValue("time_minutes") = fresh.time_minutes
                      /\ EstimateValue("layers") = fresh.layers)
    /\ [][ResetCalled
           => parser' = [total_extrusion |-> 0, total_time |-> 0,
                         X |-> 0, Y |-> 0, Z |-> 0, E |-> 0,
                         current_feedrate |-> 1500, layer_count |-> 0]]_vars

(* C34 witness: the two lines of scenario A parsed by an estimator that    *)
(* held the totals, position and feed rate of earlier work.                *)
C34_Witness ==
    /\ FileParsed
    /\ ~trace.calls[1].result
    /\ trace.calls[1].value > 0
    /\ trace.lines = <<LineA, LineB>>
    /\ trace.calls[2].result
    /\ parser.total_time = 1000

(* C35: when process_job returns, total_jobs has grown by exactly one and  *)
(* exactly one of successful_jobs and failed_jobs has grown by one,        *)
(* whatever stage failed or raised.                                        *)
C35_EachJobCountedOnce ==
    JobEnded
    => /\ stats.total_jobs = trace.stats0.total_jobs + 1
       /\ \/ /\ stats.successful_jobs = trace.stats0.successful_jobs + 1
             /\ stats.failed_jobs = trace.stats0.failed_jobs
          \/ /\ stats.successful_jobs = trace.stats0.successful_jobs
             /\ stats.failed_jobs = trace.stats0.failed_jobs + 1

(* C36: when monitoring ended by completion, the material stop_print      *)
(* returned, the material sent in finish_job(success = true) and the       *)
(* material added to Statistics equal the estimate start_print was given.  *)
C36_ActualEqualsEstimate ==
    \A i \in CallsOf("finish_job") :
        trace.calls[i].success
        => /\ i > 1
           /\ trace.calls[i - 1].op = "stop_print"
           /\ trace.calls[i - 1].value = printer.estimated_material
           /\ trace.calls[i].value = printer.estimated_material
           /\ stats.total_material_grams
                = trace.stats0.total_material_grams + printer.estimated_material

(* C36 witness: a job that printed to completion and reported a positive   *)
(* amount of material.                                                     *)
C36_Witness ==
    /\ trace.exit = "returned"
    /\ \E i \in CallsOf("finish_job") :
          trace.calls[i].success /\ trace.calls[i].value > 0
    /\ printer.current_layer = printer.total_layers

(* C37: with a declared Content-Length N, download_file returns success   *)
(* only if N body bytes were received (a connection closed earlier is a    *)
(* failure), and the bytes written to the destination never exceed N.      *)
C37_WholePayloadOrFailure ==
    download.content_length.t = "num"
    => /\ (download.stage = "done" /\ download.result)
          => download.total_bytes >= download.content_length.v
       /\ download.written <= download.content_length.v

(* C38: the navigation stack is empty whenever the screen is the main     *)
(* menu and holds exactly [main menu] in Polling, Statistics and the        *)
(* language screen, under every sequence of button events.                 *)
C38_StackMirrorsDepth ==
    IF menu.current_state = STATE_MAIN_MENU
    THEN menu.state_history = <<>>
    ELSE menu.state_history = << STATE_MAIN_MENU >>

(* the number of items of the menu of a screen *)
ItemsOf(state) ==
    IF state = STATE_MAIN_MENU THEN MainMenuItems ELSE Len(Languages)

(* the event before the last one, and the last one *)
EventsAre(first, second) ==
    /\ Len(trace.calls) = 2
    /\ trace.calls[1].op = first
    /\ trace.calls[2].op = second

(* C39: on the main menu and on the language screen the index is within    *)
(* the items of the screen (3, and one per language); up and down wrap     *)
(* around at both ends, and an up followed by a down restores the index.   *)
C39_IndexInRange ==
    menu.current_state \in {STATE_MAIN_MENU, STATE_LANGUAGE}
    => /\ 0 <= menu.selected_index
       /\ menu.selected_index < ItemsOf(menu.current_state)
       /\ (trace.calls # <<>> /\ trace.calls[Len(trace.calls)].op = "up")
          => menu.selected_index =
                IF trace.calls[Len(trace.calls)].value = 0
                THEN ItemsOf(menu.current_state) - 1
                ELSE trace.calls[Len(trace.calls)].value - 1
       /\ (trace.calls # <<>> /\ trace.calls[Len(trace.calls)].op = "down")
          => menu.selected_index =
                IF trace.calls[Len(trace.calls)].value = ItemsOf(menu.current_state) - 1
                THEN 0
                ELSE trace.calls[Len(trace.calls)].value + 1
       /\ EventsAre("up", "down") => menu.selected_index = trace.calls[1].value

(* C39 witness: on the language screen an up from the first item wrapped   *)
(* to the last one and a down brought the index back.                      *)
C39_Witness ==
    /\ menu.current_state = STATE_LANGUAGE
    /\ EventsAre("up", "down")
    /\ trace.calls[1].value = 0
    /\ trace.calls[2].value = Len(Languages) - 1
    /\ menu.selected_index = 0
    /\ Len(menu.state_history) > 1

(* a step that sends a heartbeat by send_ping, fetches the queue or is     *)
(* part of the processing of a job                                         *)
PollingWork ==
    \/ last_ping_time' # last_ping_time
    \/ last_queue_check_time' # last_queue_check_time
    \/ pc \in {"process", "estimate", "monitor", "finish"}
    \/ pc' \in {"process", "estimate", "monitor", "finish"}

(* C40: at every iteration of the control loop polling_mode is true if     *)
(* and only if the menu is in the Polling state, and no heartbeat by       *)
(* send_ping, queue fetch or job processing happens while polling_mode is  *)
(* false.                                                                  *)
C40_FlagAgreesWithMenu ==
    /\ [](pc # "crashed"
          => (polling_mode <=> menu.current_state = STATE_POLLING))
    /\ [][PollingWork => polling_mode]_vars

(* C40 witness: the client is back in menu mode after a stay in polling    *)
(* mode in which a heartbeat was sent and the queue was fetched.           *)
C40_Witness ==
    /\ pc = "menu"
    /\ ~polling_mode
    /\ menu.current_state = STATE_MAIN_MENU
    /\ last_ping_time > 0
    /\ last_queue_check_time > 0

====
